---- MODULE Spec2Model ----
(***************************************************************************)
(* A model of the particle Emitter (Emitter.ts) and of Particle.ts, of the  *)
(* interpolated property lists (PropertyNode.ts, PropertyList.ts), of the  *)
(* LinkedListContainer and of the PolygonalChain spawn shape.              *)
(*                                                                         *)
(* Time is counted in integer units.  A particle is identified by the      *)
(* index at which it was allocated; 0 stands for null.  The Emitter        *)
(* object, with the particles it owns, is the record em.                   *)
(***************************************************************************)
EXTENDS Integers, Sequences, FiniteSets, TLC

VARIABLES em,       \* the Emitter object and the particles it has allocated
          cb,       \* the completion callback: [kind, calls]
          clock,    \* time ticked by update() since emission was started
          entries,  \* the types of config.behaviors in the last init(config)
          list,     \* a PropertyList object
          call,     \* the last calls made on list: their arguments and result
          ll,       \* a LinkedListContainer and the display objects around it
          shape     \* a PolygonalChain and the last position it has given

vars == <<em, cb, clock, entries, list, call, ll, shape>>

---------------------------------------------------------------------------
(* Bounds of the model.                                                    *)

MaxLifetime == 3        \* particle lifetimes are 1..MaxLifetime
MaxFrequency == 2       \* the numbers given for frequency are -1..MaxFrequency
MaxWave == 2            \* particlesPerWave is 1..MaxWave
MaxCapacity == 2        \* the configured maxParticles
MaxEmitterLifetime == 3 \* emitterLifetime is omitted (unlimited) or MaxEmitterLifetime
MaxDt == 2              \* update(dt) is called with dt in -1..MaxDt
MaxPool == 3            \* fillPool() stops growing the pool at MaxPool particles
MaxDraws == 2           \* Math.random() draws of one call repeat after MaxDraws
MaxSignals == 1         \* particles a custom behavior asks to recycle in one call
MaxPos == 1             \* config.pos.x is 0..MaxPos
MaxSpeed == 50          \* the speed of moveSpeedStatic is at most MaxSpeed per time unit
MaxEntries == 2         \* config.behaviors has up to MaxEntries entries
MaxContainers == 2      \* the containers are 1..MaxContainers
HalfTime == 2           \* the time 0.5 of a keyframe or of lerp, in units of the model
MaxValue == 2           \* the values of keyframes are 0..MaxValue
MaxKeyframes == 3       \* a value list has 1..MaxKeyframes keyframes
MaxChildren == 3        \* the display objects are 1..MaxChildren
MaxChildCount == 4      \* no call takes childCount out of 0..MaxChildCount
MaxCalls == 5           \* a container gets up to MaxCalls calls
MaxCoord == 2           \* the coordinates of the points of a chain are 0..MaxCoord
MaxPoints == 3          \* a chain has up to MaxPoints points
RandDen == 4            \* Math.random() returns one of 0, 1/RandDen, ... below 1

(* Program constants.                                                      *)

DefaultFrequency == 1
DefaultMaxParticles == 1000
Unlimited == -1
OrderSpawn == 0
OrderNormal == 2
OrderLate == 5

Null == 0

\* the container given to the constructor
FirstContainer == 1

Min(a, b) == IF a < b THEN a ELSE b
Max(a, b) == IF a > b THEN a ELSE b

---------------------------------------------------------------------------
(* LinkedListContainer.ts                                                  *)
(*                                                                         *)
(* The container and the display objects are the record L: nodes[c] holds  *)
(* parent, nextChild and prevChild of display object c, parent being       *)
(* "this" (the container), "other" (another container) or "none" (null).   *)
(* L.threw tells that the last call has thrown; the assignments made       *)
(* before the throw stay.                                                  *)

Children == 1..MaxChildren

\* a display object without parent
NewChild == [parent |-> "none", nextChild |-> Null, prevChild |-> Null]

\* new LinkedListContainer(); threw: the last call has thrown, failed: a
\* call has thrown, calls: the number of calls so far
NewContainer ==
    [firstChild |-> Null, lastChild |-> Null, childCount |-> 0,
     nodes |-> [c \in Children |-> NewChild],
     threw |-> FALSE, failed |-> FALSE, calls |-> 0]

SetParent(L, c, v) == [L EXCEPT !.nodes[c].parent = v]
SetNextChild(L, c, v) == [L EXCEPT !.nodes[c].nextChild = v]
SetPrevChild(L, c, v) == [L EXCEPT !.nodes[c].prevChild = v]

\* a call begins
Called(L) == [L EXCEPT !.threw = FALSE, !.calls = @ + 1]

\* throw, or a TypeError at a property of null
Throw(L) == [L EXCEPT !.threw = TRUE, !.failed = TRUE]

\* the unlinking of child c in removeChild, removeChildAt and setChildIndex
Unlink(L, c) ==
    LET L1 == IF L.nodes[c].nextChild # Null
              THEN SetPrevChild(L, L.nodes[c].nextChild, L.nodes[c].prevChild)
              ELSE L
        L2 == IF L1.nodes[c].prevChild # Null
              THEN SetNextChild(L1, L1.nodes[c].prevChild, L1.nodes[c].nextChild)
              ELSE L1
        L3 == IF L2.firstChild = c
              THEN [L2 EXCEPT !.firstChild = L2.nodes[c].nextChild]
              ELSE L2
        L4 == IF L3.lastChild = c
              THEN [L3 EXCEPT !.lastChild = L3.nodes[c].prevChild]
              ELSE L3
    IN SetPrevChild(SetNextChild(L4, c, Null), c, Null)

\* removeChild(child), after the call has begun
RemoveOwn(L, c) ==
    IF L.nodes[c].parent # "this" THEN L
    ELSE [Unlink(SetParent(L, c, "none"), c) EXCEPT !.childCount = @ - 1]

\* removeChild(child)
RemoveChild(L, c) == RemoveOwn(Called(L), c)

\* if (child.parent) child.parent.removeChild(child); another container
\* clears the parent only
Detach(L, c) ==
    IF L.nodes[c].parent = "this" THEN RemoveOwn(L, c)
    ELSE IF L.nodes[c].parent = "other" THEN SetParent(L, c, "none")
    ELSE L

\* addChild(child)
AddChild(L0, c) ==
    LET L == SetParent(Detach(Called(L0), c), c, "this")
        L1 == IF L.lastChild # Null
              THEN [SetPrevChild(SetNextChild(L, L.lastChild, c), c, L.lastChild)
                       EXCEPT !.lastChild = c]
              ELSE [L EXCEPT !.firstChild = c, !.lastChild = c]
    IN [L1 EXCEPT !.childCount = @ + 1]

\* let target = this._firstChild; while (i < index) target = target.nextChild:
\* the target, or Null when the walk has left the list
RECURSIVE Walk(_, _, _)
Walk(L, target, steps) ==
    IF steps <= 0 \/ target = Null THEN target
    ELSE Walk(L, L.nodes[target].nextChild, steps - 1)

\* the insertion of child c before the target found at index, without a
\* change of childCount; a target, a target.prevChild or a _lastChild that
\* is null throws
InsertAt(L, c, index) ==
    IF L.firstChild = Null THEN [L EXCEPT !.firstChild = c, !.lastChild = c]
    ELSE IF index = 0
    THEN [SetNextChild(SetPrevChild(L, L.firstChild, c), c, L.firstChild)
             EXCEPT !.firstChild = c]
    ELSE IF index = L.childCount
    THEN IF L.lastChild = Null THEN Throw(L)
         ELSE [SetPrevChild(SetNextChild(L, L.lastChild, c), c, L.lastChild)
                  EXCEPT !.lastChild = c]
    ELSE LET target == Walk(L, L.firstChild, index)
         IN IF target = Null THEN Throw(L)
            ELSE IF L.nodes[target].prevChild = Null THEN Throw(L)
            ELSE LET L1 == SetNextChild(L, L.nodes[target].prevChild, c)
                     L2 == SetPrevChild(L1, c, L1.nodes[target].prevChild)
                     L3 == SetNextChild(L2, c, target)
                 IN SetPrevChild(L3, target, c)

\* ++this._childCount, which a throw does not reach
Counted(L) == IF L.threw THEN L ELSE [L EXCEPT !.childCount = @ + 1]

\* addChildAt(child, index)
AddChildAt(L0, c, index) ==
    IF index < 0 \/ index > L0.childCount THEN Throw(Called(L0))
    ELSE Counted(InsertAt(SetParent(Detach(Called(L0), c), c, "this"), c, index))

\* addChildBelow(child, relative)
AddChildBelow(L0, c, relative) ==
    IF L0.nodes[relative].parent # "this" THEN Throw(Called(L0))
    ELSE LET L == SetParent(Detach(Called(L0), c), c, "this")
         IN IF L.nodes[relative].prevChild = Null THEN Throw(L)
            ELSE LET L1 == SetNextChild(L, L.nodes[relative].prevChild, c)
                     L2 == SetPrevChild(L1, c, L1.nodes[relative].prevChild)
                     L3 == SetNextChild(L2, c, relative)
                     L4 == SetPrevChild(L3, relative, c)
                     L5 == IF L4.firstChild = relative
                           THEN [L4 EXCEPT !.firstChild = c]
                           ELSE L4
                 IN Counted(L5)

\* addChildAbove(child, relative)
AddChildAbove(L0, c, relative) ==
    IF L0.nodes[relative].parent # "this" THEN Throw(Called(L0))
    ELSE LET L == SetParent(Detach(Called(L0), c), c, "this")
         IN IF L.nodes[relative].nextChild = Null THEN Throw(L)
            ELSE LET L1 == SetPrevChild(L, L.nodes[relative].nextChild, c)
                     L2 == SetNextChild(L1, c, L1.nodes[relative].nextChild)
                     L3 == SetPrevChild(L2, c, relative)
                     L4 == SetNextChild(L3, relative, c)
                     L5 == IF L4.lastChild = relative
                           THEN [L4 EXCEPT !.lastChild = c]
                           ELSE L4
                 IN Counted(L5)

\* swapChildren(child, child2)
SwapChildren(L0, c, c2) ==
    LET L == Called(L0)
    IN IF c = c2 \/ L.nodes[c].parent # "this" \/ L.nodes[c2].parent # "this"
       THEN L
       ELSE LET prevChild == L.nodes[c].prevChild
                nextChild == L.nodes[c].nextChild
                L1 == SetPrevChild(L, c, L.nodes[c2].prevChild)
                L2 == SetNextChild(L1, c, L1.nodes[c2].nextChild)
                L3 == SetPrevChild(L2, c2, prevChild)
                L4 == SetNextChild(L3, c2, nextChild)
                L5 == IF L4.firstChild = c THEN [L4 EXCEPT !.firstChild = c2]
                      ELSE IF L4.firstChild = c2 THEN [L4 EXCEPT !.firstChild = c]
                      ELSE L4
            IN IF L5.lastChild = c THEN [L5 EXCEPT !.lastChild = c2]
               ELSE IF L5.lastChild = c2 THEN [L5 EXCEPT !.lastChild = c]
               ELSE L5

\* the loop of getChildIndex from test, index steps made: the index, -1 when
\* the loop ends at null (the call throws), -2 when it does not end
RECURSIVE GetChildIndexFrom(_, _, _, _)
GetChildIndexFrom(L, c, test, index) ==
    IF test = Null THEN -1
    ELSE IF test = c THEN index
    ELSE IF index > MaxChildren THEN -2
    ELSE GetChildIndexFrom(L, c, L.nodes[test].nextChild, index + 1)

\* getChildIndex(child)
GetChildIndex(L, c) == GetChildIndexFrom(L, c, L.firstChild, 0)

\* setChildIndex(child, index)
SetChildIndex(L0, c, index) ==
    IF index < 0 \/ index >= L0.childCount THEN Throw(Called(L0))
    ELSE IF L0.nodes[c].parent # "this" THEN Throw(Called(L0))
    ELSE InsertAt(Unlink(Called(L0), c), c, index)

\* getChildAt(index): [threw, child]
GetChildAt(L, index) ==
    IF index < 0 \/ index >= L.childCount THEN [threw |-> TRUE, child |-> Null]
    ELSE IF index = 0 THEN [threw |-> FALSE, child |-> L.firstChild]
    ELSE IF L.firstChild = Null \/ Walk(L, L.firstChild, index - 1) = Null
    THEN [threw |-> TRUE, child |-> Null]
    ELSE [threw |-> FALSE, child |-> Walk(L, L.firstChild, index)]

\* removeChildAt(index); child.parent = null throws when getChildAt has
\* returned null
RemoveChildAt(L0, index) ==
    LET L == Called(L0)
        got == GetChildAt(L, index)
    IN IF got.threw \/ got.child = Null THEN Throw(L)
       ELSE [Unlink(SetParent(L, got.child, "none"), got.child)
                EXCEPT !.childCount = @ - 1]

\* for (let i = 0; i <= end && child; ++i, child = child.nextChild)
\*     if (i >= begin) removed.push(child)
RECURSIVE Collect(_, _, _, _, _)
Collect(L, child, i, begin, end) ==
    IF i > end \/ child = Null THEN <<>>
    ELSE (IF i >= begin THEN <<child>> ELSE <<>>)
            \o Collect(L, L.nodes[child].nextChild, i + 1, begin, end)

\* removed[i].parent = null; removed[i].nextChild = removed[i].prevChild = null
RECURSIVE ClearRemoved(_, _, _)
ClearRemoved(L, removed, i) ==
    IF i > Len(removed) THEN L
    ELSE ClearRemoved([L EXCEPT !.nodes[removed[i]] = NewChild], removed, i + 1)

\* removeChildren(beginIndex, endIndex); removed[0] of an empty array is
\* undefined, and its prevChild throws
RemoveChildren(L0, beginIndex, endIndex) ==
    LET L == Called(L0)
        end == IF endIndex = 0 /\ L.childCount > 0 THEN L.childCount ELSE endIndex
        range == end - beginIndex
    IN IF range > 0 /\ range <= end
       THEN LET removed == Collect(L, L.firstChild, 0, beginIndex, end)
            IN IF removed = <<>> THEN Throw(L)
               ELSE LET prevChild == L.nodes[removed[1]].prevChild
                        nextChild == L.nodes[removed[Len(removed)]].nextChild
                        L1 == IF nextChild = Null
                              THEN [L EXCEPT !.lastChild = prevChild]
                              ELSE SetPrevChild(L, nextChild, prevChild)
                        L2 == IF prevChild = Null
                              THEN [L1 EXCEPT !.firstChild = nextChild]
                              ELSE SetNextChild(L1, prevChild, nextChild)
                    IN ClearRemoved(L2, removed, 1)
       ELSE IF range = 0 /\ L.childCount = 0 THEN L
       ELSE Throw(L)

---------------------------------------------------------------------------
(* PolygonalChain.ts                                                       *)
(*                                                                         *)
(* Points have integer coordinates, and the data are those whose segments  *)
(* have integer lengths.  data is [nested, chains]: a list of chains when  *)
(* nested (Array.isArray(data[0])), the list of points chains[1] when not; *)
(* null and [] are the empty list of points.                               *)

\* the PolygonalChain object before init(data) and before any getRandPos
NoShape ==
    [constructed |-> FALSE,
     segments |-> <<>>, countingLengths |-> <<>>, totalLength |-> 0,
     out |-> [threw |-> FALSE, seg |-> 0, x |-> 0, y |-> 0, den |-> 1, rand |-> 0]]

\* (p2.x - p1.x)^2 + (p2.y - p1.y)^2
SquaredLength(p1, p2) ==
    (p2.x - p1.x) * (p2.x - p1.x) + (p2.y - p1.y) * (p2.y - p1.y)

\* whether Math.sqrt of the squared length is an integer
HasIntegerLength(p1, p2) ==
    \E r \in 0..(2 * MaxCoord) : r * r = SquaredLength(p1, p2)

\* Math.sqrt(...), for a segment of integer length
SegLength(p1, p2) ==
    CHOOSE r \in 0..(2 * MaxCoord) : r * r = SquaredLength(p1, p2)

\* the segments of one chain of points, l still 0
ChainSegments(chain) ==
    [j \in 1..(Len(chain) - 1) |-> [p1 |-> chain[j], p2 |-> chain[j + 1], l |-> 0]]

\* the segments of the chains from the i-th on
RECURSIVE SegmentsFrom(_, _)
SegmentsFrom(chains, i) ==
    IF i > Len(chains) THEN <<>>
    ELSE ChainSegments(chains[i]) \o SegmentsFrom(chains, i + 1)

\* the first part of init(data): the segments
Segments(data) ==
    IF ~data.nested /\ data.chains[1] = <<>>
    THEN << [p1 |-> [x |-> 0, y |-> 0], p2 |-> [x |-> 0, y |-> 0], l |-> 0] >>
    ELSE SegmentsFrom(data.chains, 1)

\* the second part of init(data), from segment i on: the lengths
RECURSIVE Lengths(_, _)
Lengths(S, i) ==
    IF i > Len(S.segments) THEN S
    ELSE LET segLength == SegLength(S.segments[i].p1, S.segments[i].p2)
         IN Lengths([S EXCEPT !.segments[i].l = segLength,
                              !.totalLength = @ + segLength,
                              !.countingLengths = Append(@, S.totalLength + segLength)],
                    i + 1)

\* new PolygonalChain(data)
NewPolygonalChain(data) ==
    Lengths([NoShape EXCEPT !.constructed = TRUE, !.segments = Segments(data)], 1)

\* the loop of getRandPos over countingLengths from index i on: the index of
\* the chosen segment, 0 when the loop ends without one; rand is the
\* numerator of the random length, over RandDen
RECURSIVE ChooseSegment(_, _, _)
ChooseSegment(S, rand, i) ==
    IF i > Len(S.countingLengths) THEN 0
    ELSE IF rand < S.countingLengths[i] * RandDen THEN i
    ELSE ChooseSegment(S, rand, i + 1)

\* getRandPos(out) with Math.random() = random / RandDen: the segment
\* chosen and the point out, x / den and y / den; chosenSeg.l of an
\* undefined chosenSeg throws
GetRandPos(S, random) ==
    LET rand == random * S.totalLength
        seg == IF Len(S.segments) = 1 THEN 1 ELSE ChooseSegment(S, rand, 1)
    IN IF seg = 0
       THEN [threw |-> TRUE, seg |-> 0, x |-> 0, y |-> 0, den |-> 1, rand |-> rand]
       ELSE LET chosenSeg == S.segments[seg]
                lerp == IF Len(S.segments) = 1 \/ seg = 1 THEN rand
                        ELSE rand - S.countingLengths[seg - 1] * RandDen
                den == RandDen * (IF chosenSeg.l = 0 THEN 1 ELSE chosenSeg.l)
            IN [threw |-> FALSE, seg |-> seg,
                x |-> chosenSeg.p1.x * den + lerp * (chosenSeg.p2.x - chosenSeg.p1.x),
                y |-> chosenSeg.p1.y * den + lerp * (chosenSeg.p2.y - chosenSeg.p1.y),
                den |-> den, rand |-> rand]

---------------------------------------------------------------------------
(* Particle.ts                                                             *)

\* new Particle(emitter)
\* new Particle(emitter): x is position.x, vx is config.velocity.x; the emitter
\* is never rotated here, so that the y coordinates stay 0; xNaN tells that
\* position.x is not a finite number (x is then left at 0); parentId names
\* the container that parent is
NewParticle ==
    [next |-> Null, prev |-> Null, age |-> 0, maxLife |-> 0, parent |-> FALSE,
     x |-> 0, vx |-> 0, xNaN |-> FALSE, parentId |-> Null]

\* an init that leaves the age and the position as they are
ParticleInitKeepsState(p, maxLife) == [p EXCEPT !.maxLife = maxLife]

\* Particle.init(maxLife): next, prev and config are left as they are
ParticleInit(p, maxLife) ==
    [p EXCEPT !.maxLife = maxLife, !.age = 0, !.x = 0, !.xNaN = FALSE]

---------------------------------------------------------------------------
(* The behavior registry and the pipelines built by Emitter.init           *)

PositionParticle == "PositionParticle"

\* Emitter.knownBehaviors: the registered types used here, each with its
\* order, whether it defines updateParticle, whether its updateParticle can
\* return a truthy value, and whether it defines recycleParticle.  custom and
\* customEarly are behaviors registered by the application, the second with
\* an order below Spawn; the others are built in
knownBehaviors ==
    [ spawnPoint      |-> [order |-> OrderSpawn, update |-> FALSE,
                           signals |-> FALSE, recycle |-> FALSE],
      alpha           |-> [order |-> OrderNormal, update |-> TRUE,
                           signals |-> FALSE, recycle |-> FALSE],
      moveSpeedStatic |-> [order |-> OrderLate, update |-> TRUE,
                           signals |-> FALSE, recycle |-> FALSE],
      custom          |-> [order |-> OrderLate, update |-> TRUE,
                           signals |-> TRUE, recycle |-> TRUE],
      customEarly     |-> [order |-> OrderSpawn - 1, update |-> TRUE,
                           signals |-> FALSE, recycle |-> TRUE] ]

\* the type has been registered
IsKnown(type) == type \in DOMAIN knownBehaviors

\* knownBehaviors is a plain object: the lookup of a type that is the name of
\* a method of Object.prototype finds that method, which is not a constructor
InheritedMethods == {"toString"}

\* the lookup knownBehaviors[data.type] is truthy
Found(type) == IsKnown(type) \/ type \in InheritedMethods

\* new constructor(data.config) throws a TypeError
MapThrows(types) == \E i \in 1..Len(types) : types[i] \in InheritedMethods

\* the comparator of behaviors.sort: TRUE when a has to come after b
SortsAfter(a, b) ==
    IF a = PositionParticle
    THEN knownBehaviors[b].order = OrderSpawn
    ELSE IF b = PositionParticle
         THEN knownBehaviors[a].order # OrderSpawn
         ELSE knownBehaviors[a].order > knownBehaviors[b].order

RECURSIVE InsertSorted(_, _)
InsertSorted(sorted, b) ==
    IF sorted = <<>> THEN <<b>>
    ELSE IF SortsAfter(sorted[Len(sorted)], b)
         THEN Append(InsertSorted(SubSeq(sorted, 1, Len(sorted) - 1), b),
                     sorted[Len(sorted)])
         ELSE Append(sorted, b)

RECURSIVE SortBehaviors(_)
SortBehaviors(bs) ==
    IF bs = <<>> THEN <<>>
    ELSE InsertSorted(SortBehaviors(SubSeq(bs, 1, Len(bs) - 1)), bs[Len(bs)])

\* config.behaviors.map(...).filter(...), push(PositionParticle)
Unsorted(types) == Append(SelectSeq(types, IsKnown), PositionParticle)

\* the comparator orders the elements of bs consistently: no two are each
\* after the other, and being after, and being neither before nor after, are
\* transitive
Consistent(bs) ==
    LET I == 1..Len(bs)
        After(i, j) == i # j /\ SortsAfter(bs[i], bs[j])
        Tied(i, j) == ~After(i, j) /\ ~After(j, i)
    IN /\ \A i, j \in I : ~(After(i, j) /\ After(j, i))
       /\ \A i, j, k \in I : After(i, j) /\ After(j, k) => After(i, k)
       /\ \A i, j, k \in I : Tied(i, j) /\ Tied(j, k) => Tied(i, k)

Reorderings(bs) ==
    { [i \in 1..Len(bs) |-> bs[f[i]]] :
        f \in { g \in [1..Len(bs) -> 1..Len(bs)] :
                  \A i, j \in 1..Len(bs) : g[i] = g[j] => i = j } }

\* what behaviors.sort(comparator) can leave: the stable sort of a consistent
\* comparator, and an order that depends on the implementation of sort
\* otherwise
SortOutcomes(bs) ==
    IF Consistent(bs) THEN {SortBehaviors(bs)} ELSE Reorderings(bs)

\* the init pipelines that init() can build from config.behaviors
InitPipelines(types) == SortOutcomes(Unsorted(types))

\* the init pipeline built with a consistent comparator
BuildInitBehaviors(types) == SortBehaviors(Unsorted(types))

HasUpdate(b) == b # PositionParticle /\ knownBehaviors[b].update

BuildUpdateBehaviors(initBehaviors) == SelectSeq(initBehaviors, HasUpdate)

HasRecycle(b) == b # PositionParticle /\ knownBehaviors[b].recycle

BuildRecycleBehaviors(initBehaviors) == SelectSeq(initBehaviors, HasRecycle)

---------------------------------------------------------------------------
(* Emitter.ts                                                              *)

\* the Emitter after the field initialisers of the constructor and the
\* assignment of the initial parent.  spawnPos is spawnPosition.x, the owner
\* position staying (0, 0); speed is the speed that the moveSpeedStatic
\* behavior of the pipeline was built with; ran and hooks log the calls of
\* updateParticle and recycleParticle made by the operation in progress
Constructed ==
    [ parts |-> <<>>,
      initBehaviors |-> <<>>, updateBehaviors |-> <<>>, recycleBehaviors |-> <<>>,
      spawnPos |-> 0, speed |-> 0,
      ownerPos |-> 0, prevPos |-> 0,
      prevPosIsValid |-> FALSE, posChanged |-> FALSE,
      minLifetime |-> 0, maxLifetime |-> 0,
      frequency |-> DefaultFrequency, spawnChance |-> 100,
      maxParticles |-> DefaultMaxParticles, emitterLifetime |-> Unlimited,
      particlesPerWave |-> 1,
      container |-> TRUE, containerId |-> FirstContainer, hasPosition |-> TRUE,
      particleCount |-> 0, emit |-> FALSE, spawnTimer |-> 0,
      emitterLife |-> Unlimited,
      first |-> Null, last |-> Null, poolFirst |-> Null,
      autoUpdate |-> FALSE, destroyWhenComplete |-> FALSE,
      completeCallback |-> FALSE,
      ran |-> <<>>, hooks |-> <<>>, waves |-> <<>>, tick |-> 0,
      pooledState |-> FALSE ]

\* the values that a program can assign to frequency: numbers, NaN, and
\* values of another type
Number(n) == [type |-> "number", nan |-> FALSE, n |-> n]
NotANumber == [type |-> "number", nan |-> TRUE, n |-> 0]
OtherValues == { [type |-> t, nan |-> FALSE, n |-> 0] : t \in {"string", "undefined"} }

\* typeof value === 'number' && value > 0; NaN > 0 is false
IsPositiveNumber(value) == value.type = "number" /\ ~value.nan /\ value.n > 0

\* a setter that stores every number
SetFrequencyUnguarded(S, value) ==
    [S EXCEPT !.frequency = IF value.type = "number" /\ ~value.nan THEN value.n
                            ELSE DefaultFrequency]

\* set frequency(value)
SetFrequency(S, value) ==
    [S EXCEPT !.frequency = IF IsPositiveNumber(value) THEN value.n
                            ELSE DefaultFrequency]

\* set emit(value)
SetEmit(S, value) ==
    [S EXCEPT !.emit = value, !.emitterLife = S.emitterLifetime]

\* set autoUpdate(value): the ticker registration follows the flag
SetAutoUpdate(S, value) == [S EXCEPT !.autoUpdate = value]

\* Emitter.fillPool(count)
RECURSIVE FillPool(_, _)
FillPool(S, count) ==
    IF count <= 0 THEN S
    ELSE FillPool([S EXCEPT !.parts = Append(@, [NewParticle EXCEPT !.next = S.poolFirst]),
                            !.poolFirst = Len(S.parts) + 1],
                  count - 1)

\* a recycle that leaves the tail pointer on the recycled particle
RecycleKeepsLast(S, p, fromCleanup) ==
    LET nx == S.parts[p].next
        pv == S.parts[p].prev
        P1 == IF nx # Null THEN [S.parts EXCEPT ![nx].prev = pv] ELSE S.parts
        P2 == IF pv # Null THEN [P1 EXCEPT ![pv].next = nx] ELSE P1
        P3 == IF S.pooledState
              THEN [P2 EXCEPT ![p].prev = Null, ![p].next = S.poolFirst,
                              ![p].parent = FALSE, ![p].parentId = Null]
              ELSE [P2 EXCEPT ![p] = [NewParticle EXCEPT !.next = S.poolFirst]]
    IN [S EXCEPT !.parts = P3,
                 !.first = IF p = S.first THEN nx ELSE @,
                 !.poolFirst = p,
                 !.particleCount = @ - 1]

\* a first loop of recycle() that passes fromCleanup on as natural
RECURSIVE RecycleHooksFlipped(_, _, _, _)
RecycleHooksFlipped(S, p, fromCleanup, i) ==
    IF i > Len(S.recycleBehaviors) THEN S
    ELSE RecycleHooksFlipped([S EXCEPT !.hooks = Append(@, [p |-> p,
                                                            b |-> S.recycleBehaviors[i],
                                                            natural |-> fromCleanup,
                                                            linked |-> S.parts[p].parent])],
                             p, fromCleanup, i + 1)

\* the first loop of recycle(): recycleParticle(particle, !fromCleanup) on
\* every behavior of the recycle pipeline; linked tells whether the particle
\* is still in its container at the time of the call
RECURSIVE RecycleHooks(_, _, _, _)
RecycleHooks(S, p, fromCleanup, i) ==
    IF i > Len(S.recycleBehaviors) THEN S
    ELSE RecycleHooks([S EXCEPT !.hooks = Append(@, [p |-> p,
                                                     b |-> S.recycleBehaviors[i],
                                                     natural |-> ~fromCleanup,
                                                     linked |-> S.parts[p].parent])],
                      p, fromCleanup, i + 1)

\* Emitter.recycle(particle, fromCleanup) with the order of the source's
\* assignments: the hooks, the neighbours, the tail, the head, then the pool.
\* A pooled particle keeps its age, maxLife, position and velocity; the
\* model keeps them where S.pooledState is set and forgets them elsewhere
Recycle(S, p, fromCleanup) ==
    LET H == RecycleHooks(S, p, fromCleanup, 1)
        nx == S.parts[p].next
        pv == S.parts[p].prev
        P1 == IF nx # Null THEN [S.parts EXCEPT ![nx].prev = pv] ELSE S.parts
        P2 == IF pv # Null THEN [P1 EXCEPT ![pv].next = nx] ELSE P1
        P3 == IF S.pooledState
              THEN [P2 EXCEPT ![p].prev = Null, ![p].next = S.poolFirst,
                              ![p].parent = FALSE, ![p].parentId = Null]
              ELSE [P2 EXCEPT ![p] = [NewParticle EXCEPT !.next = S.poolFirst]]
    IN [H EXCEPT !.parts = P3,
                 !.last = IF p = S.last THEN pv ELSE @,
                 !.first = IF p = S.first THEN nx ELSE @,
                 !.poolFirst = p,
                 !.particleCount = @ - 1]

\* the loop of Emitter.cleanup
RECURSIVE CleanupLoop(_, _)
CleanupLoop(S, p) ==
    IF p = Null THEN S
    ELSE CleanupLoop(Recycle(S, p, TRUE), S.parts[p].next)

\* Emitter.cleanup()
Cleanup(S) ==
    [CleanupLoop(S, S.first) EXCEPT !.first = Null, !.last = Null,
                                    !.particleCount = 0]

\* set particlesContainer(value), value a container
SetContainer(S) == [Cleanup(S) EXCEPT !.container = TRUE,
                                      !.containerId = FirstContainer]

\* a setter that leaves the particles where they are
SetContainerKeepsParticles(S, c) == [S EXCEPT !.container = TRUE, !.containerId = c]

\* set particlesContainer(value), value the container c
SetContainerTo(S, c) == [Cleanup(S) EXCEPT !.container = TRUE, !.containerId = c]

\* get destroyed()
Destroyed(S) == ~(S.container /\ Len(S.initBehaviors) > 0)

\* Emitter.destroy(): every pooled particle is destroyed, and with it leaves
\* the model; the emitter keeps no reference to any of them
Destroy(S) ==
    [Cleanup(SetAutoUpdate(S, FALSE)) EXCEPT
        !.parts = <<>>, !.poolFirst = Null,
        !.container = FALSE, !.containerId = Null, !.hasPosition = FALSE,
        !.completeCallback = FALSE,
        !.initBehaviors = <<>>, !.updateBehaviors = <<>>, !.recycleBehaviors = <<>>]

\* Emitter.updateSpawnPos(x, y), y = 0: the flag is set before spawnPosition,
\* null after destroy(), is written to
UpdateSpawnPos(S, x) ==
    IF S.hasPosition THEN [S EXCEPT !.posChanged = TRUE, !.spawnPos = x]
    ELSE [S EXCEPT !.posChanged = TRUE]

\* Emitter.updateOwnerPosition(x, y), y = 0
UpdateOwnerPosition(S, x) ==
    IF S.hasPosition THEN [S EXCEPT !.posChanged = TRUE, !.ownerPos = x]
    ELSE [S EXCEPT !.posChanged = TRUE]

\* Emitter.resetPositionTracking()
ResetPositionTracking(S) == [S EXCEPT !.prevPosIsValid = FALSE]

---------------------------------------------------------------------------
(* Emitter.init(config)                                                    *)

\* the part of init() before this.ownerPosition.set(0)
InitSettings(S, config) ==
    [SetFrequency(Cleanup(S), config.frequency) EXCEPT
        !.minLifetime = config.lifetimeMin,
        !.maxLifetime = config.lifetimeMax,
        !.particlesPerWave =
            IF config.particlesPerWave > 1 THEN config.particlesPerWave ELSE 1,
        !.spawnChance = IF config.spawnChance > 0 THEN config.spawnChance ELSE 100,
        !.emitterLifetime =
            IF config.emitterLifetime # 0 THEN config.emitterLifetime ELSE Unlimited,
        !.maxParticles =
            IF config.maxParticles > 0 THEN config.maxParticles ELSE DefaultMaxParticles]

\* init() throws at this.ownerPosition.set(0) when destroy() has cleared
\* ownerPosition
InitThrows(S) == ~S.hasPosition

\* the part of init() from this.ownerPosition.set(0) to the behaviors
InitEmitter(S, config) ==
    SetAutoUpdate(SetEmit([S EXCEPT !.ownerPos = 0, !.spawnPos = config.pos,
                                    !.prevPos = config.pos,
                                    !.prevPosIsValid = FALSE, !.spawnTimer = 0],
                          config.emit),
                  config.autoUpdate)

\* the part of init() after this.ownerPosition.set(0), which leaves the
\* pipeline bs, one of InitPipelines(config.behaviors)
InitRest(S, config, bs) ==
    [InitEmitter(S, config) EXCEPT
        !.initBehaviors = bs,
        !.updateBehaviors = BuildUpdateBehaviors(bs),
        !.recycleBehaviors = BuildRecycleBehaviors(bs),
        !.speed = config.speed]

\* Emitter.init(config), sort leaving the pipeline bs; what init() has done
\* before it throws stays done
EmitterInitWith(S, config, bs) ==
    IF InitThrows(S) THEN InitSettings(S, config)
    ELSE IF MapThrows(config.behaviors) THEN InitEmitter(InitSettings(S, config), config)
    ELSE InitRest(InitSettings(S, config), config, bs)

\* Emitter.init(config) when the comparator is consistent on config.behaviors
EmitterInit(S, config) ==
    EmitterInitWith(S, config, BuildInitBehaviors(config.behaviors))

---------------------------------------------------------------------------
(* Emitter.update(delta) and Emitter.emitNow()                             *)

\* whether updateParticle of behavior b returns a truthy value for particle p:
\* sig is the set of particles for which a custom behavior does so this call
Truthy(b, p, sig) == knownBehaviors[b].signals /\ p \in sig

\* whether one of the update behaviors returns a truthy value for particle p
Signals(S, p, sig) ==
    \E i \in 1..Len(S.updateBehaviors) : Truthy(S.updateBehaviors[i], p, sig)

\* updateParticle(particle, deltaSec) of behavior b, logged in S.ran
UpdateParticle(S, b, p, deltaSec) ==
    LET S1 == [S EXCEPT !.ran = Append(@, [p |-> p, b |-> b, d |-> deltaSec])]
    IN IF b = "moveSpeedStatic"
       THEN [S1 EXCEPT !.parts[p].x = @ + S.parts[p].vx * deltaSec]
       ELSE S1

\* a loop over this.updateBehaviors that goes on after a truthy return
RECURSIVE UpdateBehaviorsNoBreak(_, _, _, _, _)
UpdateBehaviorsNoBreak(S, p, deltaSec, sig, i) ==
    IF i > Len(S.updateBehaviors) THEN S
    ELSE LET b == S.updateBehaviors[i]
             S1 == UpdateParticle(S, b, p, deltaSec)
         IN IF Truthy(b, p, sig) /\ S1.parts[p].parent
            THEN UpdateBehaviorsNoBreak(Recycle(S1, p, FALSE), p, deltaSec, sig, i + 1)
            ELSE UpdateBehaviorsNoBreak(S1, p, deltaSec, sig, i + 1)

\* the loop over this.updateBehaviors for particle p, from the i-th on: the
\* first behavior that returns a truthy value has the particle recycled and
\* ends the loop
RECURSIVE UpdateBehaviorsFrom(_, _, _, _, _)
UpdateBehaviorsFrom(S, p, deltaSec, sig, i) ==
    IF i > Len(S.updateBehaviors) THEN S
    ELSE LET b == S.updateBehaviors[i]
             S1 == UpdateParticle(S, b, p, deltaSec)
         IN IF Truthy(b, p, sig) THEN Recycle(S1, p, FALSE)
            ELSE UpdateBehaviorsFrom(S1, p, deltaSec, sig, i + 1)

RunUpdateBehaviors(S, p, deltaSec, sig) == UpdateBehaviorsFrom(S, p, deltaSec, sig, 1)

\* a first loop that recycles for a negative age only
RECURSIVE AgeLoopKeepsExpired(_, _, _, _)
AgeLoopKeepsExpired(S, p, delta, sig) ==
    IF p = Null THEN S
    ELSE LET next == S.parts[p].next
             S1 == [S EXCEPT !.parts[p].age = @ + delta]
             S2 == IF S1.parts[p].age < 0
                   THEN Recycle(S1, p, FALSE)
                   ELSE RunUpdateBehaviors(S1, p, delta, sig)
         IN AgeLoopKeepsExpired(S2, next, delta, sig)

\* a first loop that recycles a particle as soon as its age reaches maxLife
RECURSIVE AgeLoopExpiresEarly(_, _, _, _)
AgeLoopExpiresEarly(S, p, delta, sig) ==
    IF p = Null THEN S
    ELSE LET next == S.parts[p].next
             S1 == [S EXCEPT !.parts[p].age = @ + delta]
             age == S1.parts[p].age
             S2 == IF age >= S1.parts[p].maxLife \/ age < 0
                   THEN Recycle(S1, p, FALSE)
                   ELSE RunUpdateBehaviors(S1, p, delta, sig)
         IN AgeLoopExpiresEarly(S2, next, delta, sig)

\* the first loop of update(): age every active particle, recycle the
\* expired ones, run the update behaviors on the others
RECURSIVE AgeLoop(_, _, _, _)
AgeLoop(S, p, delta, sig) ==
    IF p = Null THEN S
    ELSE LET next == S.parts[p].next
             S1 == [S EXCEPT !.parts[p].age = @ + delta]
             age == S1.parts[p].age
             S2 == IF age > S1.parts[p].maxLife \/ age < 0
                   THEN Recycle(S1, p, FALSE)
                   ELSE RunUpdateBehaviors(S1, p, delta, sig)
         IN AgeLoop(S2, next, delta, sig)

\* the lifetime of a new particle; draw.life stands for Math.random()
ChooseLifetime(S, draw) ==
    IF S.minLifetime = S.maxLifetime THEN S.minLifetime
    ELSE S.minLifetime + Min(draw.life, Max(S.maxLifetime - S.minLifetime - 1, 0))

\* a spawn opportunity is skipped when Math.random() >= spawnChance
SkipsSpawn(S, draw) == S.spawnChance < 100 /\ draw.chance >= S.spawnChance

\* a take that leaves the particle at the head of the pool
TakeParticleKeepsPool(S, lifetime) ==
    LET fromPool == S.poolFirst # Null
        p == IF fromPool THEN S.poolFirst ELSE Len(S.parts) + 1
        P0 == IF fromPool THEN [S.parts EXCEPT ![p].next = Null]
              ELSE Append(S.parts, NewParticle)
    IN [S |-> [S EXCEPT !.parts = [P0 EXCEPT ![p] = ParticleInit(@, lifetime)]],
        p |-> p]

\* a take that allocates although a particle is pooled
TakeParticleAlwaysNew(S, lifetime) ==
    [S |-> [S EXCEPT !.parts = Append(@, ParticleInit(NewParticle, lifetime))],
     p |-> Len(S.parts) + 1]

\* take the head of the pool when there is one, a new particle otherwise,
\* and initialise it: [S, p]
TakeParticle(S, lifetime) ==
    LET fromPool == S.poolFirst # Null
        p == IF fromPool THEN S.poolFirst ELSE Len(S.parts) + 1
        P0 == IF fromPool THEN [S.parts EXCEPT ![p].next = Null]
              ELSE Append(S.parts, NewParticle)
    IN [S |-> [S EXCEPT !.parts = [P0 EXCEPT ![p] = ParticleInit(@, lifetime)],
                        !.poolFirst = IF fromPool THEN S.parts[p].next ELSE @],
        p |-> p]

\* add particle p to the container and to the wave W = [S, wf, wl] and count it
AddToWave(W, S, p) ==
    LET P1 == [S.parts EXCEPT ![p].parent = TRUE, ![p].parentId = S.containerId]
        P2 == IF W.wf # Null THEN [P1 EXCEPT ![W.wl].next = p, ![p].prev = W.wl]
              ELSE P1
    IN [S  |-> [S EXCEPT !.parts = P2, !.particleCount = @ + 1],
        wf |-> IF W.wf # Null THEN W.wf ELSE p,
        wl |-> p]

SpawnParticle(W, lifetime) ==
    LET T == TakeParticle(W.S, lifetime)
    IN AddToWave(W, T.S, T.p)

\* a wave loop that makes a particle whatever its backdated age
RECURSIVE WaveLoopSpawnsAll(_, _, _, _, _)
WaveLoopSpawnsAll(W, i, len, n, rnd) ==
    IF i >= len THEN W
    ELSE LET draw == rnd[(n + i) % MaxDraws]
             lifetime == ChooseLifetime(W.S, draw)
         IN IF SkipsSpawn(W.S, draw)
            THEN WaveLoopSpawnsAll(W, i + 1, len, n, rnd)
            ELSE WaveLoopSpawnsAll(SpawnParticle(W, lifetime), i + 1, len, n, rnd)

\* the wave loop of update(): a particle whose backdated age would reach its
\* lifetime is not made
RECURSIVE WaveLoop(_, _, _, _, _)
WaveLoop(W, i, len, n, rnd) ==
    IF i >= len THEN W
    ELSE LET draw == rnd[(n + i) % MaxDraws]
             lifetime == ChooseLifetime(W.S, draw)
         IN IF SkipsSpawn(W.S, draw) \/ -W.S.spawnTimer >= lifetime
            THEN WaveLoop(W, i + 1, len, n, rnd)
            ELSE WaveLoop(SpawnParticle(W, lifetime), i + 1, len, n, rnd)

\* a wave that ignores the room left under maxParticles
WaveLengthUncapped(S) == S.particlesPerWave

\* Math.min(this.particlesPerWave, this.maxParticles - this.particleCount)
WaveLength(S) == Min(S.particlesPerWave, S.maxParticles - S.particleCount)

\* append the wave to the list of active particles
LinkWave(W) ==
    LET S == W.S
    IN IF S.last # Null
       THEN [S EXCEPT !.parts[S.last].next = W.wf, !.parts[W.wf].prev = S.last,
                      !.last = W.wl]
       ELSE [S EXCEPT !.first = W.wf, !.last = W.wl]

\* the anchor of the emitter: ownerPosition + spawnPosition
Anchor(S) == S.ownerPos + S.spawnPos

\* an emission position that is interpolated whenever the position changed
EmitPosUnchecked(S) ==
    LET cur == S.ownerPos + S.spawnPos
        prev == S.prevPos
    IN IF S.posChanged /\ S.tick > 0
       THEN [finite |-> TRUE,
             x |-> ((cur - prev) * (S.tick + S.spawnTimer)) \div S.tick + prev,
             interpolated |-> TRUE]
       ELSE [finite |-> TRUE, x |-> cur, interpolated |-> FALSE]

\* the emission position of a spawn opportunity of update(delta), delta kept
\* in S.tick: between the previous anchor and the current one, at
\* lerp = 1 + _spawnTimer / delta, or the current anchor.  With delta = 0 the
\* quotient is 0 / 0 or an infinity and the position is not a finite number
EmitPos(S) ==
    LET cur == Anchor(S)
        prev == S.prevPos
    IN IF S.prevPosIsValid /\ S.posChanged
       THEN IF S.tick = 0
            THEN [finite |-> FALSE, x |-> 0, interpolated |-> TRUE]
            ELSE [finite |-> TRUE,
                  x |-> IF S.tick > 0
                        THEN ((cur - prev) * (S.tick + S.spawnTimer)) \div S.tick + prev
                        ELSE ((cur - prev) * (-S.tick - S.spawnTimer)) \div (-S.tick)
                             + prev,
                  interpolated |-> TRUE]
       ELSE [finite |-> TRUE, x |-> cur, interpolated |-> FALSE]

\* the emission position of a spawn opportunity, logged in S.waves with the
\* values it is computed from
LogWave(S, spawned) ==
    [S EXCEPT !.waves = Append(@, [pos |-> EmitPos(S), prev |-> S.prevPos,
                                    cur |-> Anchor(S), delta |-> S.tick,
                                    timer |-> S.spawnTimer,
                                    valid |-> S.prevPosIsValid,
                                    spawned |-> spawned])]

\* the PositionParticle step of the init pipeline in update(): every particle
\* of the wave is moved by the emission position and aged by -_spawnTimer
RECURSIVE PositionStep(_, _)
PositionStep(S, p) ==
    IF p = Null THEN S
    ELSE PositionStep([S EXCEPT !.parts[p].x = @ + EmitPos(S).x,
                                !.parts[p].xNaN = @ \/ ~EmitPos(S).finite,
                                !.parts[p].age = @ - S.spawnTimer],
                      S.parts[p].next)

\* StaticSpeedBehavior.initParticles(first)
RECURSIVE SpeedInit(_, _)
SpeedInit(S, p) ==
    IF p = Null THEN S
    ELSE SpeedInit([S EXCEPT !.parts[p].vx = S.speed], S.parts[p].next)

\* initParticles(waveFirst) of behavior b; the other behaviors set properties
\* that are not part of the model
InitParticles(S, b, wf) ==
    IF b = "moveSpeedStatic" THEN SpeedInit(S, wf) ELSE S

\* the loop over this.initBehaviors in update(), from the i-th on
RECURSIVE InitBehaviorsFrom(_, _, _)
InitBehaviorsFrom(S, wf, i) ==
    IF i > Len(S.initBehaviors) THEN S
    ELSE LET b == S.initBehaviors[i]
         IN InitBehaviorsFrom(IF b = PositionParticle THEN PositionStep(S, wf)
                              ELSE InitParticles(S, b, wf),
                              wf, i + 1)

\* a wave whose particles are not given the time since their spawn
CatchUpSkipped(S, p, sig) == S

\* the update behaviors run once on every particle of the wave, for the time
\* -_spawnTimer
RECURSIVE CatchUp(_, _, _)
CatchUp(S, p, sig) ==
    IF p = Null THEN S
    ELSE CatchUp(RunUpdateBehaviors(S, p, -S.spawnTimer, sig), S.parts[p].next, sig)

\* one spawn opportunity of update() that makes a wave
SpawnWave(S, n, rnd, sig) ==
    LET W == WaveLoop([S |-> S, wf |-> Null, wl |-> Null], 0, WaveLength(S), n, rnd)
    IN IF W.wf = Null THEN LogWave(W.S, FALSE)
       ELSE CatchUp(InitBehaviorsFrom(LogWave(LinkWave(W), TRUE), W.wf, 1), W.wf, sig)

\* a pass of the spawn loop that leaves the loop when the emitter is full
SpawnStepGivesUp(S, n, rnd, sig) ==
    LET S1 == IF S.emitterLife >= 0
              THEN [S EXCEPT !.emitterLife = @ - S.frequency]
              ELSE S
    IN IF S.emitterLife >= 0 /\ S1.emitterLife <= 0
       THEN [S |-> SetEmit([S1 EXCEPT !.spawnTimer = 0, !.emitterLife = 0], FALSE),
             n |-> n, stop |-> TRUE]
       ELSE IF S1.particleCount >= S1.maxParticles
            THEN [S |-> S1, n |-> n, stop |-> TRUE]
            ELSE [S |-> [SpawnWave(S1, n, rnd, sig) EXCEPT
                            !.spawnTimer = @ + S1.frequency],
                  n |-> n + S1.particlesPerWave, stop |-> FALSE]

\* a pass of the spawn loop that does not count the emitter lifetime down
SpawnStepForever(S, n, rnd, sig) ==
    IF S.particleCount >= S.maxParticles
    THEN [S |-> [S EXCEPT !.spawnTimer = @ + S.frequency],
          n |-> n, stop |-> FALSE]
    ELSE [S |-> [SpawnWave(S, n, rnd, sig) EXCEPT !.spawnTimer = @ + S.frequency],
          n |-> n + S.particlesPerWave, stop |-> FALSE]

\* one pass of the spawn loop, a spawn opportunity: the end of the emitter
\* lifetime (break), a full emitter (continue), or a wave; n counts the
\* draws of Math.random() made so far
SpawnStep(S, n, rnd, sig) ==
    LET S1 == IF S.emitterLife >= 0
              THEN [S EXCEPT !.emitterLife = @ - S.frequency]
              ELSE S
    IN IF S.emitterLife >= 0 /\ S1.emitterLife <= 0
       THEN [S |-> SetEmit([S1 EXCEPT !.spawnTimer = 0, !.emitterLife = 0], FALSE),
             n |-> n, stop |-> TRUE]
       ELSE IF S1.particleCount >= S1.maxParticles
            THEN [S |-> [S1 EXCEPT !.spawnTimer = @ + S1.frequency],
                  n |-> n, stop |-> FALSE]
            ELSE [S |-> [SpawnWave(S1, n, rnd, sig) EXCEPT
                            !.spawnTimer = @ + S1.frequency],
                  n |-> n + S1.particlesPerWave, stop |-> FALSE]

\* while (this._spawnTimer <= 0)
RECURSIVE SpawnLoop(_, _, _, _)
SpawnLoop(S, n, rnd, sig) ==
    IF S.spawnTimer > 0 THEN S
    ELSE LET R == SpawnStep(S, n, rnd, sig)
         IN IF R.stop THEN R.S ELSE SpawnLoop(R.S, R.n, rnd, sig)

\* the states in which the spawn loop, entered in state S, starts a pass
RECURSIVE SpawnOpportunities(_, _, _, _)
SpawnOpportunities(S, n, rnd, sig) ==
    IF S.spawnTimer > 0 THEN {}
    ELSE LET R == SpawnStep(S, n, rnd, sig)
         IN {[S |-> S, n |-> n]} \cup
            (IF R.stop THEN {} ELSE SpawnOpportunities(R.S, R.n, rnd, sig))

\* a spawn pass that does not look at emit
SpawnPassAlways(S, delta, rnd, sig) ==
    SpawnLoop([S EXCEPT !.spawnTimer = @ - Max(delta, 0), !.tick = delta], 0, rnd, sig)

\* if (this._emit) { this._spawnTimer -= delta < 0 ? 0 : delta ... }
SpawnPass(S, delta, rnd, sig) ==
    IF S.emit
    THEN SpawnLoop([S EXCEPT !.spawnTimer = @ - Max(delta, 0), !.tick = delta],
                   0, rnd, sig)
    ELSE S

\* if (this._posChanged): the current anchor becomes the previous one
StorePosition(S) ==
    IF S.posChanged
    THEN [S EXCEPT !.prevPos = Anchor(S), !.prevPosIsValid = TRUE,
                   !.posChanged = FALSE]
    ELSE S

\* the end of update(): emission has stopped and no particle is left
IsComplete(S) == ~S.emit /\ S.first = Null

\* a completion that keeps the callback registered
CompleteKeepsCallback(S) ==
    IF ~IsComplete(S) THEN S
    ELSE IF S.destroyWhenComplete THEN Destroy(S) ELSE S

Complete(S) ==
    IF ~IsComplete(S) THEN S
    ELSE LET S1 == [S EXCEPT !.completeCallback = FALSE]
         IN IF S.destroyWhenComplete THEN Destroy(S1) ELSE S1

\* update() throws at this.ownerPosition.x, after its first loop, when a
\* container is set and destroy() has cleared ownerPosition
UpdateThrows(S) == S.container /\ ~S.hasPosition

\* an update that does not check for its container
UpdateParticlesUnchecked(S, delta, rnd, sig) ==
    IF UpdateThrows(S) THEN AgeLoop(S, S.first, delta, sig)
    ELSE StorePosition(SpawnPass(AgeLoop(S, S.first, delta, sig), delta, rnd, sig))

\* an update that spawns before it ages the active particles
UpdateParticlesSpawnFirst(S, delta, rnd, sig) ==
    IF ~S.container THEN S
    ELSE IF UpdateThrows(S) THEN AgeLoop(S, S.first, delta, sig)
    ELSE LET P == SpawnPass(S, delta, rnd, sig)
         IN StorePosition(AgeLoop(P, P.first, delta, sig))

\* update() up to the check for completion; without a container it returns
\* at once
UpdateParticles(S, delta, rnd, sig) ==
    IF ~S.container THEN S
    ELSE IF UpdateThrows(S) THEN AgeLoop(S, S.first, delta, sig)
    ELSE StorePosition(SpawnPass(AgeLoop(S, S.first, delta, sig), delta, rnd, sig))

\* the state update() ends in, given the state B its loops have left
UpdateEnd(S, B) ==
    IF ~S.container \/ UpdateThrows(S) THEN B ELSE Complete(B)

\* Emitter.update(delta)
Update(S, delta, rnd, sig) == UpdateEnd(S, UpdateParticles(S, delta, rnd, sig))

\* the call has returned: the logs of the calls it made are dropped
Returned(S) == [S EXCEPT !.ran = <<>>, !.hooks = <<>>, !.waves = <<>>, !.tick = 0]

\* the wave loop of emitNow(): no check of the backdated age, and adding the
\* particle to a missing container throws, the particle already taken
RECURSIVE EmitNowLoop(_, _, _, _)
EmitNowLoop(W, i, len, rnd) ==
    IF i >= len \/ W.threw THEN W
    ELSE LET draw == rnd[i % MaxDraws]
             T == TakeParticle(W.S, ChooseLifetime(W.S, draw))
             V == AddToWave(W, T.S, T.p)
         IN IF SkipsSpawn(W.S, draw) THEN EmitNowLoop(W, i + 1, len, rnd)
            ELSE IF W.S.container
                 THEN EmitNowLoop([S |-> V.S, wf |-> V.wf, wl |-> V.wl, threw |-> FALSE],
                                  i + 1, len, rnd)
                 ELSE [W EXCEPT !.S = T.S, !.threw = TRUE]

\* an emitNow that makes particles only while emit is set
EmitNowWaveWhenEmitting(S, rnd) ==
    IF ~S.hasPosition THEN [S |-> S, wf |-> Null, wl |-> Null, threw |-> TRUE]
    ELSE EmitNowLoop([S |-> S, wf |-> Null, wl |-> Null, threw |-> FALSE],
                     0, IF S.emit THEN WaveLength(S) ELSE 0, rnd)

\* emitNow() throws on its first line when destroy() has cleared ownerPosition
EmitNowWave(S, rnd) ==
    IF ~S.hasPosition THEN [S |-> S, wf |-> Null, wl |-> Null, threw |-> TRUE]
    ELSE EmitNowLoop([S |-> S, wf |-> Null, wl |-> Null, threw |-> FALSE],
                     0, WaveLength(S), rnd)

EmitNowThrows(S, rnd) == EmitNowWave(S, rnd).threw

\* the PositionParticle step of the init pipeline in emitNow()
RECURSIVE EmitNowPositionStep(_, _)
EmitNowPositionStep(S, p) ==
    IF p = Null THEN S
    ELSE EmitNowPositionStep([S EXCEPT !.parts[p].x = @ + Anchor(S)], S.parts[p].next)

\* the loop over this.initBehaviors in emitNow(), from the i-th on
RECURSIVE EmitNowInitFrom(_, _, _)
EmitNowInitFrom(S, wf, i) ==
    IF i > Len(S.initBehaviors) THEN S
    ELSE LET b == S.initBehaviors[i]
         IN EmitNowInitFrom(IF b = PositionParticle THEN EmitNowPositionStep(S, wf)
                            ELSE InitParticles(S, b, wf),
                            wf, i + 1)

\* Emitter.emitNow()
EmitNow(S, rnd) ==
    LET W == EmitNowWave(S, rnd)
    IN IF W.threw \/ W.wf = Null THEN W.S
       ELSE EmitNowInitFrom(LinkWave(W), W.wf, 1)

---------------------------------------------------------------------------
(* Inputs                                                                  *)

\* config.behaviors: registered and unregistered types
\* the values given for frequency: -1..MaxFrequency, NaN and non-numbers
FrequencyValues ==
    { Number(n) : n \in -1..MaxFrequency } \cup {NotANumber} \cup OtherValues

BehaviorLists == { <<"custom", "moveSpeedStatic", "bogus", "alpha", "spawnPoint">> }

\* lifetime {min, max}: one fixed lifetime, and a range with a random choice
LifetimeRanges == { <<MaxLifetime - 1, MaxLifetime - 1>>, <<1, MaxLifetime>> }

AllConfigs ==
    { c \in [ lifetimeMin : 1..MaxLifetime, lifetimeMax : 1..MaxLifetime,
              frequency : FrequencyValues, particlesPerWave : 1..MaxWave,
              spawnChance : {50, 100}, emitterLifetime : {0, MaxEmitterLifetime},
              maxParticles : 1..MaxCapacity, emit : {TRUE}, autoUpdate : {FALSE},
              pos : 0..MaxPos, speed : {1}, behaviors : BehaviorLists ] :
        <<c.lifetimeMin, c.lifetimeMax>> \in LifetimeRanges }

\* the configurations of Spec: a spawn chance below 1, which leaves both
\* outcomes of every spawn opportunity open
Configs ==
    { c \in AllConfigs : /\ c.spawnChance = 50 /\ c.maxParticles = MaxCapacity
                         /\ c.pos = 0
                         /\ c.frequency \in { Number(n) : n \in 0..MaxFrequency } }

\* the configurations of SpecPlay
PlayConfigs ==
    { c \in AllConfigs : /\ c.spawnChance = 100 /\ c.maxParticles = MaxCapacity
                         /\ SetFrequency(Constructed, c.frequency).frequency = 1
                         /\ c.lifetimeMin = c.lifetimeMax }

\* the deltas update() is called with; the shared ticker's elapsed time, which
\* replaces the argument under autoUpdate, is never negative
Deltas(S) == IF S.autoUpdate THEN 0..MaxDt ELSE -1..MaxDt

\* the values Math.random() returns during one call, as far as they matter:
\* draw i decides the spawn chance (in percent) and the lifetime
\* (no lifetime is drawn for a spawn that is skipped)
Draws(S) ==
    { d \in [ chance : IF S.spawnChance < 100 THEN {0, 99} ELSE {0},
              life : IF S.maxLifetime - S.minLifetime > 1 THEN 0..(MaxLifetime - 2)
                     ELSE {0} ] :
        d.chance >= S.spawnChance => d.life = 0 }

Randoms(S) == [0..(MaxDraws - 1) -> Draws(S)]

\* the sets of particles for which a custom update behavior asks for a recycle
Signalled(S) ==
    IF \E i \in 1..Len(S.updateBehaviors) : knownBehaviors[S.updateBehaviors[i]].signals
    THEN { s \in SUBSET (1..Max(Len(S.parts), S.maxParticles)) :
             Cardinality(s) <= MaxSignals }
    ELSE {{}}

---------------------------------------------------------------------------
(* The particle lists                                                      *)

\* the particles reached from p by following next, at most n of them
RECURSIVE Chain(_, _, _)
Chain(parts, p, n) ==
    IF p = Null \/ n = 0 THEN <<>>
    ELSE <<p>> \o Chain(parts, parts[p].next, n - 1)

\* one more than the number of particles bounds every list without a cycle
Active(S) == Chain(S.parts, S.first, Len(S.parts) + 1)
Pooled(S) == Chain(S.parts, S.poolFirst, Len(S.parts) + 1)

Range(seq) == { seq[i] : i \in 1..Len(seq) }

---------------------------------------------------------------------------
(* The clock of an emission with a finite emitterLifetime                  *)

NoClock == [t |-> 0, timer0 |-> 0]

\* update() runs the spawn loop of an emitter with a finite lifetime
Timed(S) == S.container /\ S.hasPosition /\ S.emit /\ S.emitterLifetime > 0

ClockCap == MaxEmitterLifetime + MaxFrequency + MaxDt

\* emission starts: the emit setter has reset the remaining emitter lifetime
ClockStarted(S) == IF Timed(S) THEN [t |-> 0, timer0 |-> S.spawnTimer] ELSE NoClock

\* update(delta) has returned S
ClockTicked(S, delta) ==
    IF Timed(S) THEN [clock EXCEPT !.t = Min(@ + Max(delta, 0), ClockCap)] ELSE NoClock

ClockKept(S) == IF Timed(S) THEN clock ELSE NoClock

---------------------------------------------------------------------------
(* PropertyNode and PropertyList.                                          *)
(*                                                                         *)
(* The times of keyframes and the lerp values are multiples of             *)
(* 1 / FullTime.  A chain of PropertyNode objects is the sequence of its   *)
(* nodes, next being the following element.  A number that interpolate     *)
(* returns is the fraction num / den; den = 0 stands for a value that is   *)
(* not a finite number.  No list has an ease.                              *)

FullTime == 2 * HalfTime

\* new PropertyList(): first and interpolate are null
NewPropertyList == [first |-> <<>>, isStepped |-> FALSE, interpolate |-> "null"]

\* PropertyNode.createList(data), data of the form {list, isStepped}: the
\* nodes after the first are left out of a list of two equal values
CreateList(data) ==
    LET array == data.list
    IN [ nodes |-> IF Len(array) > 2
                      \/ (Len(array) = 2 /\ array[2].value # array[1].value)
                   THEN array
                   ELSE <<array[1]>>,
         isStepped |-> data.isStepped ]

\* PropertyList.reset(first) of a list of numbers
Reset(first) ==
    LET isSimple == Len(first.nodes) >= 2 /\ first.nodes[2].time >= FullTime
    IN [ first |-> first.nodes, isStepped |-> first.isStepped,
         interpolate |-> IF isSimple THEN "intValueSimple"
                         ELSE IF first.isStepped THEN "intValueStepped"
                         ELSE "intValueComplex" ]

Thrown == [throws |-> TRUE, num |-> 0, den |-> 1]
Returns(num, den) == [throws |-> FALSE, num |-> num, den |-> den]

\* intValueSimple: reading first.next.value of a single node throws
IntValueSimple(L, lerp) ==
    IF Len(L.first) < 2 THEN Thrown
    ELSE Returns((L.first[2].value - L.first[1].value) * lerp
                    + L.first[1].value * FullTime,
                 FullTime)

\* intValueComplex from node i on: reading next.time throws when there is no
\* next node
RECURSIVE IntValueComplexFrom(_, _, _)
IntValueComplexFrom(L, lerp, i) ==
    IF i + 1 > Len(L.first) THEN Thrown
    ELSE LET current == L.first[i]
             next == L.first[i + 1]
         IN IF lerp > next.time THEN IntValueComplexFrom(L, lerp, i + 1)
            ELSE Returns((next.value - current.value) * (lerp - current.time)
                            + current.value * (next.time - current.time),
                         next.time - current.time)

IntValueComplex(L, lerp) == IntValueComplexFrom(L, lerp, 1)

\* intValueStepped from node i on
RECURSIVE IntValueSteppedFrom(_, _, _)
IntValueSteppedFrom(L, lerp, i) ==
    IF i + 1 <= Len(L.first) /\ lerp > L.first[i + 1].time
    THEN IntValueSteppedFrom(L, lerp, i + 1)
    ELSE Returns(L.first[i].value, 1)

IntValueStepped(L, lerp) == IntValueSteppedFrom(L, lerp, 1)

\* list.interpolate(lerp); calling the null of a list never reset throws
Interpolate(L, lerp) ==
    IF L.interpolate = "intValueSimple" THEN IntValueSimple(L, lerp)
    ELSE IF L.interpolate = "intValueStepped" THEN IntValueStepped(L, lerp)
    ELSE IF L.interpolate = "intValueComplex" THEN IntValueComplex(L, lerp)
    ELSE Thrown

\* no call made yet
NoCall == [data |-> [list |-> <<>>, isStepped |-> FALSE], lerp |-> -1,
           result |-> Returns(0, 1)]

---------------------------------------------------------------------------
(* Operations                                                              *)

\* new Emitter(container, config)
Constructor(C) ==
    /\ \E config \in C : \E bs \in InitPipelines(config.behaviors) :
          /\ em = Returned(EmitterInitWith(Constructed, config, bs))
          /\ entries = config.behaviors
    /\ cb = [kind |-> "none", calls |-> 0]
    /\ clock = ClockStarted(em)
    /\ list = NewPropertyList
    /\ call = NoCall
    /\ ll = NewContainer
    /\ shape = NoShape

InitCall(C) ==
    \E config \in C : \E bs \in InitPipelines(config.behaviors) :
        /\ em' = Returned(EmitterInitWith(em, config, bs))
        /\ entries' = config.behaviors
        /\ clock' = IF InitThrows(em) THEN ClockKept(em') ELSE ClockStarted(em')
        /\ UNCHANGED <<cb, list, call, ll, shape>>

Init == Constructor(Configs)

InitStep == InitCall(Configs)

\* whether update() invokes the completion callback, given the state B its
\* loops have left
CallbackFires(S, B) ==
    S.container /\ ~UpdateThrows(S) /\ IsComplete(B) /\ B.completeCallback

UpdateStep ==
    \E delta \in Deltas(em), rnd \in Randoms(em), sig \in Signalled(em) :
        LET B == UpdateParticles(em, delta, rnd, sig)
        IN /\ em' = Returned(UpdateEnd(em, B))
           /\ cb' = IF CallbackFires(em, B) THEN [cb EXCEPT !.calls = @ + 1] ELSE cb
           /\ clock' = ClockTicked(em', delta)
           /\ UNCHANGED <<entries, list, call, ll, shape>>

EmitNowStep ==
    \E rnd \in Randoms(em) :
        /\ em' = EmitNow(em, rnd)
        /\ clock' = ClockKept(em')
        /\ UNCHANGED <<cb, entries, list, call, ll, shape>>

FillPoolStep ==
    \E count \in 1..MaxPool :
        /\ Len(em.parts) + count <= MaxPool
        /\ em' = FillPool(em, count)
        /\ UNCHANGED <<cb, clock, entries, list, call, ll, shape>>

\* Particle.kill() on an active particle
KillStep ==
    \E p \in Range(Active(em)) :
        /\ em' = Returned(Recycle(em, p, FALSE))
        /\ UNCHANGED <<cb, clock, entries, list, call, ll, shape>>

CleanupStep ==
    /\ em' = Returned(Cleanup(em))
    /\ UNCHANGED <<cb, clock, entries, list, call, ll, shape>>

DestroyStep ==
    /\ em' = Returned(Destroy(em))
    /\ UNCHANGED <<cb, clock, entries, list, call, ll, shape>>

SetContainerStep ==
    /\ em' = Returned(SetContainer(em))
    /\ clock' = ClockKept(em')
    /\ UNCHANGED <<cb, entries, list, call, ll, shape>>

\* emitter.frequency = value
SetFrequencyStep ==
    \E value \in FrequencyValues :
        /\ em' = SetFrequency(em, value)
        /\ UNCHANGED <<cb, clock, entries, list, call, ll, shape>>

SetEmitStep ==
    \E value \in BOOLEAN :
        /\ em' = SetEmit(em, value)
        /\ clock' = ClockStarted(em')
        /\ UNCHANGED <<cb, entries, list, call, ll, shape>>

\* Emitter.playOnce(callback)
PlayOnce(S, callback) == [SetEmit(S, TRUE) EXCEPT !.completeCallback = callback]

\* Emitter.playOnceAndDestroy(callback)
PlayOnceAndDestroy(S, callback) ==
    [SetEmit(SetAutoUpdate(S, TRUE), TRUE) EXCEPT
        !.destroyWhenComplete = TRUE, !.completeCallback = callback]

PlayOnceStep ==
    \E callback \in BOOLEAN :
        /\ em' = PlayOnce(em, callback)
        /\ cb' = [kind |-> IF callback THEN "once" ELSE "none", calls |-> 0]
        /\ clock' = ClockStarted(em')
        /\ UNCHANGED <<entries, list, call, ll, shape>>

PlayOnceAndDestroyStep ==
    \E callback \in BOOLEAN :
        /\ em' = PlayOnceAndDestroy(em, callback)
        /\ cb' = [kind |-> IF callback THEN "destroy" ELSE "none", calls |-> 0]
        /\ clock' = ClockStarted(em')
        /\ UNCHANGED <<entries, list, call, ll, shape>>

Next ==
    \/ InitStep
    \/ UpdateStep
    \/ EmitNowStep
    \/ FillPoolStep
    \/ KillStep
    \/ CleanupStep
    \/ DestroyStep
    \/ SetEmitStep
    \/ SetContainerStep

Spec == Init /\ [][Next]_vars

(* The emitter with playOnce() and playOnceAndDestroy().                   *)

PlayInit == Constructor(PlayConfigs)

PlayInitStep == InitCall(PlayConfigs)

PlayNext ==
    \/ PlayInitStep
    \/ UpdateStep
    \/ EmitNowStep
    \/ FillPoolStep
    \/ KillStep
    \/ CleanupStep
    \/ DestroyStep
    \/ SetEmitStep
    \/ PlayOnceStep
    \/ PlayOnceAndDestroyStep

SpecPlay == PlayInit /\ [][PlayNext]_vars

(* The emitter with a finite emitter lifetime that is played once and then *)
(* updated with positive time steps, again and again.                      *)

LiveConfigs ==
    { c \in [ lifetimeMin : 1..MaxLifetime, lifetimeMax : 1..MaxLifetime,
              frequency : { Number(n) : n \in 1..MaxFrequency },
              particlesPerWave : {1}, spawnChance : {50, 100},
              emitterLifetime : {MaxEmitterLifetime},
              maxParticles : {1}, emit : BOOLEAN, autoUpdate : {FALSE},
              pos : {0}, speed : {1}, behaviors : {<<"custom">>} ] :
        c.lifetimeMin = c.lifetimeMax }

LiveInit == Constructor(LiveConfigs)

\* emitter.playOnce(cb), called once
LivePlayOnceStep ==
    /\ cb.kind = "none"
    /\ em' = PlayOnce(em, TRUE)
    /\ cb' = [kind |-> "once", calls |-> 0]
    /\ clock' = ClockStarted(em')
    /\ UNCHANGED <<entries, list, call, ll, shape>>

\* emitter.playOnceAndDestroy(cb), called once
LivePlayOnceAndDestroyStep ==
    /\ cb.kind = "none"
    /\ em' = PlayOnceAndDestroy(em, TRUE)
    /\ cb' = [kind |-> "destroy", calls |-> 0]
    /\ clock' = ClockStarted(em')
    /\ UNCHANGED <<entries, list, call, ll, shape>>

\* emitter.update(delta), delta > 0 (under autoUpdate the ticker's elapsed time)
UpdateForwardStep ==
    \E delta \in 1..MaxDt, rnd \in Randoms(em), sig \in Signalled(em) :
        LET B == UpdateParticles(em, delta, rnd, sig)
        IN /\ em' = Returned(UpdateEnd(em, B))
           /\ cb' = IF CallbackFires(em, B) THEN [cb EXCEPT !.calls = @ + 1] ELSE cb
           /\ clock' = ClockTicked(em', delta)
           /\ UNCHANGED <<entries, list, call, ll, shape>>

LiveNext ==
    \/ LivePlayOnceStep
    \/ LivePlayOnceAndDestroyStep
    \/ UpdateForwardStep

\* some update(delta), delta > 0, changes the state: UpdateForwardStep is
\* enabled as a step that is not a stuttering step
CanAdvance ==
    \E delta \in 1..MaxDt, rnd \in Randoms(em), sig \in Signalled(em) :
        LET B == UpdateParticles(em, delta, rnd, sig)
            E == Returned(UpdateEnd(em, B))
        IN E # em \/ CallbackFires(em, B) \/ ClockTicked(E, delta) # clock

\* update() keeps being called: weak fairness of UpdateForwardStep, written
\* out with CanAdvance as its enabling condition
UpdateFairness == []<>(~CanAdvance) \/ []<><<UpdateForwardStep>>_vars

SpecLive == LiveInit /\ [][LiveNext]_vars /\ UpdateFairness

(* The emitter that spawns waves of three at every opportunity, for ever,  *)
(* with particles that outlive ten spawn periods; clock.t is the time that *)
(* update() has been given since init().                                   *)

WaveConfigs ==
    [ lifetimeMin : {10 * MaxFrequency + 1}, lifetimeMax : {10 * MaxFrequency + 1},
      frequency : { Number(n) : n \in 1..MaxFrequency }, particlesPerWave : {3},
      spawnChance : {100}, emitterLifetime : {0},
      maxParticles : {MaxCapacity, 30, 31, 33, 34}, emit : {TRUE},
      autoUpdate : {FALSE}, pos : {0}, speed : {1}, behaviors : BehaviorLists ]

\* the deltas that keep the run within ten spawn periods
WaveDeltas(S) == { d \in 0..(10 * S.frequency) : clock.t + d <= 10 * S.frequency }

WaveInit == Constructor(WaveConfigs)

\* init() again, while few particles have been made
WaveInitStep == Len(em.parts) <= MaxPool /\ InitCall(WaveConfigs)

\* update(delta), no behavior asking for a recycle
WaveUpdateStep ==
    \E delta \in WaveDeltas(em), rnd \in Randoms(em) :
        /\ em' = Returned(Update(em, delta, rnd, {}))
        /\ clock' = [clock EXCEPT !.t = @ + delta]
        /\ UNCHANGED <<cb, entries, list, call, ll, shape>>

WaveNext ==
    \/ WaveInitStep
    \/ WaveUpdateStep

SpecWave == WaveInit /\ [][WaveNext]_vars

(* The emitter of single particles whose frequency is assigned at any time. *)

FrequencyConfigs ==
    { c \in AllConfigs : /\ c.spawnChance = 100
                         /\ c.particlesPerWave = 1 /\ c.emitterLifetime = 0
                         /\ c.pos = 0 /\ c.lifetimeMin = c.lifetimeMax }

FrequencyInit == Constructor(FrequencyConfigs)

FrequencyInitStep == InitCall(FrequencyConfigs)

FrequencyNext ==
    \/ FrequencyInitStep
    \/ UpdateStep
    \/ SetFrequencyStep
    \/ SetEmitStep
    \/ DestroyStep
    \/ SetContainerStep

SpecFrequency == FrequencyInit /\ [][FrequencyNext]_vars

(* The emitter of one particle at a time, initialised with every short     *)
(* list of behavior entries.                                               *)

\* the types of the entries: registered ones, one that is unknown, and one
\* that is the name of a method of Object.prototype
EntryTypes == {"spawnPoint", "alpha", "custom", "customEarly", "bogus", "toString"}

EntryLists == UNION { [1..n -> EntryTypes] : n \in 0..MaxEntries }

PipelineConfigs ==
    [ lifetimeMin : {MaxLifetime - 1}, lifetimeMax : {MaxLifetime - 1},
      frequency : {Number(1)}, particlesPerWave : {1},
      spawnChance : {100}, emitterLifetime : {0},
      maxParticles : {1}, emit : {TRUE}, autoUpdate : {FALSE},
      pos : {0}, speed : {1}, behaviors : EntryLists ]

PipelineInit == Constructor(PipelineConfigs)

PipelineInitStep == InitCall(PipelineConfigs)

PipelineNext ==
    \/ PipelineInitStep
    \/ UpdateStep

SpecPipeline == PipelineInit /\ [][PipelineNext]_vars

(* The emitter that is moved from one container to another.                *)

Containers == 1..MaxContainers

ContainerConfigs ==
    [ lifetimeMin : {2}, lifetimeMax : {2},
      frequency : {Number(1)},
      particlesPerWave : 1..MaxWave, spawnChance : {100}, emitterLifetime : {0},
      maxParticles : {MaxCapacity}, emit : {TRUE}, autoUpdate : {FALSE},
      pos : {0}, speed : {1}, behaviors : {<<"spawnPoint">>} ]

ContainerInit == Constructor(ContainerConfigs)

ContainerInitStep == InitCall(ContainerConfigs)

\* emitter.particlesContainer = c
SetContainerToStep ==
    \E c \in Containers :
        /\ em' = Returned(SetContainerTo(em, c))
        /\ clock' = ClockKept(em')
        /\ UNCHANGED <<cb, entries, list, call, ll, shape>>

ContainerNext ==
    \/ ContainerInitStep
    \/ UpdateStep
    \/ EmitNowStep
    \/ FillPoolStep
    \/ KillStep
    \/ CleanupStep
    \/ DestroyStep
    \/ SetContainerToStep

SpecContainer == ContainerInit /\ [][ContainerNext]_vars

(* The emitter whose owner and spawn position are moved between updates.   *)

\* the product of 1..n
RECURSIVE Product(_)
Product(n) == IF n <= 1 THEN 1 ELSE n * Product(n - 1)

\* positions are multiples of every delta, so that every interpolated
\* position is an integer
PosStep == Product(MaxDt)

Positions == {0, PosStep}

TrackConfigs ==
    [ lifetimeMin : {2}, lifetimeMax : {2},
      frequency : {Number(1)},
      particlesPerWave : {1}, spawnChance : {100}, emitterLifetime : {0},
      maxParticles : {1}, emit : BOOLEAN, autoUpdate : {FALSE},
      pos : Positions, speed : {1}, behaviors : {<<"spawnPoint">>} ]

TrackInit == Constructor(TrackConfigs)

TrackInitStep == InitCall(TrackConfigs)

UpdateSpawnPosStep ==
    \E x \in Positions :
        /\ em' = UpdateSpawnPos(em, x)
        /\ UNCHANGED <<cb, clock, entries, list, call, ll, shape>>

UpdateOwnerPositionStep ==
    \E x \in Positions :
        /\ em' = UpdateOwnerPosition(em, x)
        /\ UNCHANGED <<cb, clock, entries, list, call, ll, shape>>

ResetPositionTrackingStep ==
    /\ em' = ResetPositionTracking(em)
    /\ UNCHANGED <<cb, clock, entries, list, call, ll, shape>>

TrackNext ==
    \/ TrackInitStep
    \/ UpdateStep
    \/ UpdateSpawnPosStep
    \/ UpdateOwnerPositionStep
    \/ ResetPositionTrackingStep
    \/ SetEmitStep

SpecTrack == TrackInit /\ [][TrackNext]_vars

(* The emitter of one particle that moves at a static speed.               *)

Speeds == {1, 2, MaxSpeed}

MoveConfigs ==
    { c \in [ lifetimeMin : 1..MaxLifetime, lifetimeMax : 1..MaxLifetime,
              frequency : { Number(n) : n \in 1..MaxFrequency },
              particlesPerWave : {1}, spawnChance : {100}, emitterLifetime : {0},
              maxParticles : {1}, emit : {TRUE}, autoUpdate : {FALSE},
              pos : {0}, speed : Speeds, behaviors : {<<"moveSpeedStatic">>} ] :
        c.lifetimeMin = c.lifetimeMax }

MoveInit == Constructor(MoveConfigs)

MoveInitStep == InitCall(MoveConfigs)

MoveNext ==
    \/ MoveInitStep
    \/ UpdateStep

SpecMove == MoveInit /\ [][MoveNext]_vars

(* An emitter of moving particles whose pooled particles keep the state    *)
(* they were recycled with.                                                *)

PoolConfigs ==
    { c \in [ lifetimeMin : 1..MaxLifetime, lifetimeMax : 1..MaxLifetime,
              frequency : { Number(n) : n \in 1..MaxFrequency },
              particlesPerWave : {1}, spawnChance : {100}, emitterLifetime : {0},
              maxParticles : 1..MaxCapacity, emit : {TRUE}, autoUpdate : {FALSE},
              pos : {0}, speed : {1}, behaviors : {<<"moveSpeedStatic">>} ] :
        c.lifetimeMin = c.lifetimeMax }

PoolInit ==
    /\ \E config \in PoolConfigs : \E bs \in InitPipelines(config.behaviors) :
          /\ em = Returned(EmitterInitWith([Constructed EXCEPT !.pooledState = TRUE],
                                           config, bs))
          /\ entries = config.behaviors
    /\ cb = [kind |-> "none", calls |-> 0]
    /\ clock = ClockStarted(em)
    /\ list = NewPropertyList
    /\ call = NoCall
    /\ ll = NewContainer
    /\ shape = NoShape

PoolInitStep == InitCall(PoolConfigs)

PoolNext ==
    \/ PoolInitStep
    \/ UpdateStep

SpecPool == PoolInit /\ [][PoolNext]_vars

(* A LinkedListContainer and MaxChildren display objects, some of them     *)
(* children of another container at first.                                 *)

LinkedInit ==
    /\ em = Constructed
    /\ cb = [kind |-> "none", calls |-> 0]
    /\ clock = NoClock
    /\ entries = <<>>
    /\ list = NewPropertyList
    /\ call = NoCall
    /\ \E parents \in [Children -> {"none", "other"}] :
          ll = [NewContainer EXCEPT
                   !.nodes = [c \in Children |-> SetParent(NewContainer, c, parents[c]).nodes[c]]]
    /\ shape = NoShape

\* the container after one more call, childCount kept within
\* 0..MaxChildCount
LinkedCall(L) ==
    /\ ll.calls < MaxCalls
    /\ L.childCount \in 0..MaxChildCount
    /\ ll' = L
    /\ UNCHANGED <<em, cb, clock, entries, list, call, shape>>

AddChildStep == \E c \in Children : LinkedCall(AddChild(ll, c))

AddChildAtStep ==
    \E c \in Children, index \in -1..MaxChildCount : LinkedCall(AddChildAt(ll, c, index))

AddChildBelowStep ==
    \E c, relative \in Children : LinkedCall(AddChildBelow(ll, c, relative))

AddChildAboveStep ==
    \E c, relative \in Children : LinkedCall(AddChildAbove(ll, c, relative))

SwapChildrenStep == \E c, c2 \in Children : LinkedCall(SwapChildren(ll, c, c2))

SetChildIndexStep ==
    \E c \in Children, index \in -1..MaxChildCount :
        LinkedCall(SetChildIndex(ll, c, index))

RemoveChildStep == \E c \in Children : LinkedCall(RemoveChild(ll, c))

RemoveChildAtStep ==
    \E index \in -1..MaxChildCount : LinkedCall(RemoveChildAt(ll, index))

\* removeChildren(beginIndex, endIndex), and removeChildren() with the defaults
RemoveChildrenStep ==
    \/ \E beginIndex, endIndex \in 0..MaxChildCount :
          LinkedCall(RemoveChildren(ll, beginIndex, endIndex))
    \/ LinkedCall(RemoveChildren(ll, 0, ll.childCount))

LinkedNext ==
    \/ AddChildStep
    \/ AddChildAtStep
    \/ AddChildBelowStep
    \/ AddChildAboveStep
    \/ SwapChildrenStep
    \/ SetChildIndexStep
    \/ RemoveChildStep
    \/ RemoveChildAtStep
    \/ RemoveChildrenStep

SpecLinked == LinkedInit /\ [][LinkedNext]_vars

(* A PolygonalChain made from point data and asked for random positions.   *)

Points == [x : 0..MaxCoord, y : 0..MaxCoord]

\* the lists of up to MaxPoints points whose segments have integer lengths
PointLists ==
    UNION { { c \in [1..n -> Points] :
                \A j \in 1..(n - 1) : HasIntegerLength(c[j], c[j + 1]) } :
            n \in 0..MaxPoints }

\* a list of points, or a list of one or two chains of up to two points
ChainData ==
    { [nested |-> FALSE, chains |-> <<c>>] : c \in PointLists }
       \cup { [nested |-> TRUE, chains |-> cs] :
                cs \in { <<c>> : c \in PointLists } \cup
                       { <<c, d>> : c, d \in { e \in PointLists : Len(e) <= 2 } } }

ChainInit ==
    /\ em = Constructed
    /\ cb = [kind |-> "none", calls |-> 0]
    /\ clock = NoClock
    /\ entries = <<>>
    /\ list = NewPropertyList
    /\ call = NoCall
    /\ ll = NewContainer
    /\ shape = NoShape

\* shape = new PolygonalChain(data)
NewPolygonalChainStep ==
    \E data \in ChainData :
        /\ ~shape.constructed
        /\ shape' = NewPolygonalChain(data)
        /\ UNCHANGED <<em, cb, clock, entries, list, call, ll>>

\* shape.getRandPos(out)
GetRandPosStep ==
    \E random \in 0..(RandDen - 1) :
        /\ shape.constructed
        /\ shape' = [shape EXCEPT !.out = GetRandPos(shape, random)]
        /\ UNCHANGED <<em, cb, clock, entries, list, call, ll>>

ChainNext ==
    \/ NewPolygonalChainStep
    \/ GetRandPosStep

SpecChain == ChainInit /\ [][ChainNext]_vars

(* A property list, reset with value lists and interpolated.               *)

\* the times of the keyframes of a list of n: in 0..1, increasing
KeyTimes(n) ==
    { t \in [1..n -> 0..FullTime] : \A i \in 1..(n - 1) : t[i] < t[i + 1] }

ValueLists ==
    UNION { { [ i \in 1..n |-> [value |-> v[i], time |-> t[i]] ] :
                v \in [1..n -> 0..MaxValue], t \in KeyTimes(n) } :
            n \in 1..MaxKeyframes }

ListData == [list : ValueLists, isStepped : BOOLEAN]

Lerps == 0..FullTime

ListInit ==
    /\ em = Constructed
    /\ cb = [kind |-> "none", calls |-> 0]
    /\ clock = NoClock
    /\ entries = <<>>
    /\ list = NewPropertyList
    /\ call = NoCall
    /\ ll = NewContainer
    /\ shape = NoShape

\* list.reset(PropertyNode.createList(data))
ResetStep ==
    \E data \in ListData :
        /\ list' = Reset(CreateList(data))
        /\ call' = [NoCall EXCEPT !.data = data]
        /\ UNCHANGED <<em, cb, clock, entries, ll, shape>>

\* list.interpolate(lerp)
InterpolateStep ==
    \E lerp \in Lerps :
        /\ call' = [call EXCEPT !.lerp = lerp, !.result = Interpolate(list, lerp)]
        /\ UNCHANGED <<em, cb, clock, entries, list, ll, shape>>

ListNext ==
    \/ ResetStep
    \/ InterpolateStep

SpecList == ListInit /\ [][ListNext]_vars

---------------------------------------------------------------------------
(* Properties                                                              *)

\* C1: whenever a call of init, update or emitNow has returned, particleCount
\* is at most maxParticles.
CapacityInvariant == em.particleCount <= em.maxParticles

\* the emitter is full, filled by waves of more than one particle
CapacityReached ==
    /\ em.particleCount = em.maxParticles
    /\ em.particlesPerWave > 1
    /\ em.spawnTimer > 0

\* C2: after every operation, particleCount is the number of particles reached
\* from the head of the active list by following next, and the tail pointer is
\* the last of them; head and tail are null when there is none.
ActiveListCounted ==
    LET A == Active(em)
    IN /\ Len(A) <= Len(em.parts)
       /\ em.particleCount = Len(A)
       /\ IF A = <<>>
          THEN em.first = Null /\ em.last = Null
          ELSE em.last = A[Len(A)] /\ em.parts[em.last].next = Null

\* particles are active and a recycled one is behind them in the pool
ActiveAfterRecycle ==
    /\ em.particleCount = 2
    /\ em.poolFirst # Null
    /\ em.poolFirst < em.last

\* C3: between operations every allocated particle is in exactly one of the
\* pool and the active list, once, and neither list has a cycle.
ExactlyOneList ==
    LET A == Active(em)
        P == Pooled(em)
    IN /\ Len(A) + Len(P) = Len(em.parts)
       /\ Range(A) \cup Range(P) = 1..Len(em.parts)

\* a particle has been taken from the pool while others stay pooled and active
PoolReused ==
    /\ Len(Pooled(em)) >= 1
    /\ Len(Active(em)) >= 2
    /\ em.first > em.last

Total(S) == S.particleCount + Len(Pooled(S))

\* the particles on which updateParticle was called
UpdatedIn(S) == { S.ran[i].p : i \in 1..Len(S.ran) }

\* update() destroys the emitter at its end, B being the state its loops leave
SelfDestroys(S, B) ==
    S.container /\ ~UpdateThrows(S) /\ IsComplete(B) /\ B.destroyWhenComplete

\* C4 as stated: over every update(), particleCount plus the number of pooled
\* particles grows by the number of particles the call allocates, and changes
\* in no other way.
PoolConservedAlways ==
    \A delta \in Deltas(em), rnd \in Randoms(em), sig \in Signalled(em) :
        LET B == UpdateParticles(em, delta, rnd, sig)
            U == UpdateEnd(em, B)
        IN Total(U) = Total(em) + (Len(B.parts) - Len(em.parts))

\* C4, amended: over every update() that does not end by destroying the
\* emitter, particleCount plus the number of pooled particles grows by the
\* number of particles the call allocates; it allocates only with the pool
\* used up; an update() that destroys the emitter leaves no particle at all.
PoolConserved ==
    \A delta \in Deltas(em), rnd \in Randoms(em), sig \in Signalled(em) :
        LET B == UpdateParticles(em, delta, rnd, sig)
            U == UpdateEnd(em, B)
        IN /\ Total(B) = Total(em) + (Len(B.parts) - Len(em.parts))
           /\ Len(B.parts) >= Len(em.parts)
           /\ Len(B.parts) > Len(em.parts) /\ sig = {} => B.poolFirst = Null
           /\ IF SelfDestroys(em, B) THEN Total(U) = 0 /\ U.parts = <<>>
              ELSE U.parts = B.parts /\ Total(U) = Total(B)

\* an update() recycles the only active particle, spawns a full wave, and has
\* to allocate for it after taking the recycled particle from the pool
PoolUsedUp ==
    /\ em.particleCount = 1
    /\ em.poolFirst = Null
    /\ \E delta \in Deltas(em), rnd \in Randoms(em) :
          LET B == UpdateParticles(em, delta, rnd, {})
          IN /\ Len(B.parts) > Len(em.parts)
             /\ B.parts[em.first].age < em.parts[em.first].age
             /\ B.particleCount = 2

AgedBy(S, p, delta) == S.parts[p].age + delta

\* C5 as stated: a particle whose age after update() is at most maxLife stays
\* in the active list; one whose age exceeds maxLife is recycled by the first
\* loop of that update() without any update behavior being run on it.
ExpiryOnly ==
    em.container =>
    \A delta \in Deltas(em), rnd \in Randoms(em), sig \in Signalled(em) :
        LET A == AgeLoop(em, em.first, delta, sig)
            U == Update(em, delta, rnd, sig)
        IN \A p \in Range(Active(em)) :
              IF AgedBy(em, p, delta) <= em.parts[p].maxLife
              THEN p \in Range(Active(U)) /\ U.parts[p].age = AgedBy(em, p, delta)
              ELSE p \in Range(Pooled(A)) /\ p \notin UpdatedIn(A)

\* C5, amended: a particle whose age after update() is in 0..maxLife, and for
\* which no update behavior asks for a recycle, stays in the active list with
\* that age; one whose age exceeds maxLife is recycled by the first loop of
\* that update() without any update behavior being run on it.
ExpiryAtMaxLife ==
    em.container =>
    \A delta \in Deltas(em), rnd \in Randoms(em), sig \in Signalled(em) :
        LET A == AgeLoop(em, em.first, delta, sig)
            U == Update(em, delta, rnd, sig)
        IN \A p \in Range(Active(em)) :
              /\ /\ AgedBy(em, p, delta) <= em.parts[p].maxLife
                 /\ AgedBy(em, p, delta) >= 0
                 /\ ~Signals(em, p, sig)
                 => /\ p \in Range(Active(U))
                    /\ U.parts[p].age = AgedBy(em, p, delta)
                    /\ U.parts[p].maxLife = em.parts[p].maxLife
              /\ AgedBy(em, p, delta) > em.parts[p].maxLife
                 => p \in Range(Pooled(A)) /\ p \notin UpdatedIn(A)

\* an active particle has reached exactly its maxLife, next to a younger one
AtMaxLife ==
    \E p, q \in Range(Active(em)) :
        /\ em.parts[p].age = em.parts[p].maxLife
        /\ em.parts[q].age < em.parts[q].maxLife

\* C6: once the deltas of update() since init() add up to ten spawn periods,
\* particleCount is min(maxParticles, 30), however the time was split.
TenWaves ==
    clock.t = 10 * em.frequency => em.particleCount = Min(em.maxParticles, 30)

\* C7: once the deltas of update() since emission started add up to
\* emitterLifetime, emit is false.
StopsWithinLifetime == Timed(em) => clock.t < em.emitterLifetime

\* C8: with emit false, update() makes no particle; it ages every active
\* particle and runs the update behaviors on it, and recycles exactly those
\* whose age exceeds maxLife or is negative or for which a behavior asks;
\* cleanup() and destroy() empty the active list at once.
DrainsWhenNotEmitting ==
    /\ ~em.emit /\ em.container =>
       \A delta \in Deltas(em), rnd \in Randoms(em), sig \in Signalled(em) :
           LET U == Update(em, delta, rnd, sig)
           IN /\ Len(U.parts) = Len(em.parts)
              /\ U.particleCount <= em.particleCount
              /\ Range(Active(U)) \subseteq Range(Active(em))
              /\ \A p \in Range(Active(em)) :
                    IF \/ AgedBy(em, p, delta) > em.parts[p].maxLife
                       \/ AgedBy(em, p, delta) < 0
                       \/ Signals(em, p, sig)
                    THEN p \in Range(Pooled(U))
                    ELSE /\ p \in Range(Active(U))
                         /\ U.parts[p].age = AgedBy(em, p, delta)
                         /\ Len(em.updateBehaviors) > 0 => p \in UpdatedIn(U)
    /\ Active(Cleanup(em)) = <<>> /\ Cleanup(em).particleCount = 0
    /\ Active(Destroy(em)) = <<>> /\ Destroy(em).particleCount = 0

\* emission is off with two particles active: update(1) keeps one and
\* recycles the other
Draining ==
    /\ ~em.emit /\ em.container /\ em.poolFirst # Null
    /\ \E p, q \in Range(Active(em)) :
          /\ AgedBy(em, p, 1) > em.parts[p].maxLife
          /\ AgedBy(em, q, 1) <= em.parts[q].maxLife

\* C9: the callback of playOnce() or playOnceAndDestroy() is invoked at most
\* once for a registration, by an update() that ends with emit false and no
\* active particle, and that destroys the emitter when the registration was
\* playOnceAndDestroy().
CallbackOnce ==
    [][ /\ cb'.calls <= 1
        /\ cb'.calls > cb.calls =>
              /\ cb'.kind = cb.kind
              /\ cb.kind # "none"
              /\ ~em'.emit /\ em'.particleCount = 0 /\ em'.first = Null
              /\ ~em'.completeCallback
              /\ cb.kind = "destroy" => Destroyed(em') /\ ~em'.autoUpdate ]_vars

\* the callback of playOnceAndDestroy() has been invoked and the emitter is
\* destroyed
CalledAndDestroyed == cb.kind = "destroy" /\ cb.calls = 1 /\ Destroyed(em)

\* C10: after destroy() the destroyed accessor is true, and update() returns
\* without throwing and leaves the emitter as it is.
DestroyedIsInert ==
    /\ LET D == Destroy(em) IN ~D.container /\ Destroyed(D)
    /\ ~em.container =>
       /\ Destroyed(em)
       /\ ~UpdateThrows(em)
       /\ \A delta \in Deltas(em), rnd \in Randoms(em), sig \in Signalled(em) :
             Update(em, delta, rnd, sig) = em

\* a destroyed emitter with emit set and a refilled pool
DestroyedEmitting == ~em.container /\ em.emit /\ em.poolFirst # Null

\* C11: after destroy(), assigning a container and calling init(config)
\* completes without error and leaves destroyed false, with the pipelines of
\* a new emitter.
ReusableAfterDestroy ==
    \A config \in Configs :
        LET D == SetContainer(Destroy(em))
            R == EmitterInit(D, config)
        IN /\ ~InitThrows(D)
           /\ ~Destroyed(R)
           /\ R.initBehaviors = EmitterInit(Constructed, config).initBehaviors

\* C12: emitNow() on an emitter with spawnChance 1 appends
\* min(particlesPerWave, maxParticles - particleCount) new particles to the
\* active list, at the emitter position and with age 0, whatever emit and the
\* spawn timer are; it changes nothing when the emitter is full, and never
\* changes the spawn timer, the remaining emitter lifetime or emit.
EmitNowOneWave ==
    em.hasPosition /\ em.spawnChance = 100 =>
    \A rnd \in Randoms(em) :
        LET E == EmitNow(em, rnd)
            n == Min(em.particlesPerWave, em.maxParticles - em.particleCount)
            A == Active(E)
        IN /\ ~EmitNowThrows(em, rnd)
           /\ E.particleCount = em.particleCount + n
           /\ Len(A) = em.particleCount + n
           /\ SubSeq(A, 1, em.particleCount) = Active(em)
           /\ \A i \in (em.particleCount + 1)..Len(A) :
                 /\ A[i] \notin Range(Active(em))
                 /\ E.parts[A[i]].x = em.spawnPos
                 /\ E.parts[A[i]].age = 0
                 /\ E.parts[A[i]].maxLife \in em.minLifetime..em.maxLifetime
           /\ \A p \in Range(Active(em)) :
                 /\ E.parts[p].age = em.parts[p].age
                 /\ E.parts[p].x = em.parts[p].x
           /\ E.spawnTimer = em.spawnTimer
           /\ E.emitterLife = em.emitterLife
           /\ E.emit = em.emit
           /\ em.particleCount >= em.maxParticles => E = em

\* only emitNow() has made particles, the last one with emit false: first a
\* wave, then, after an update(), the one particle for which there was room
BurstWhileStopped ==
    /\ ~em.emit /\ em.spawnTimer = 0 /\ em.emitterLifetime = Unlimited
    /\ em.hasPosition /\ em.spawnPos > 0
    /\ em.particlesPerWave = 2 /\ em.particleCount = em.maxParticles
    /\ em.parts[em.last].age = 0 /\ em.parts[em.last].x = em.spawnPos
    /\ em.parts[em.first].age > 0

\* C13: assigning frequency a number greater than 0 stores it, assigning
\* anything else stores 1, in the setter as in init(config); the frequency
\* of the emitter is greater than 0 in every state.
FrequencyPositive ==
    /\ em.frequency > 0
    /\ \A value \in FrequencyValues :
          SetFrequency(em, value).frequency =
              IF value \in { Number(n) : n \in 1..MaxFrequency } THEN value.n ELSE 1
    /\ \A config \in FrequencyConfigs :
          EmitterInit(em, config).frequency =
              IF config.frequency \in { Number(n) : n \in 1..MaxFrequency }
              THEN config.frequency.n ELSE 1

\* the frequency was assigned after particles had been spawned at another
\* interval
FrequencyReassigned ==
    /\ em.frequency = MaxFrequency /\ em.emit /\ em.particleCount > 0
    /\ em.spawnTimer = 1 /\ em.parts[em.last].age = 0
    /\ ~InitThrows(em)

\* the spawn opportunities of update(delta) called in state S
UpdateOpportunities(S, delta, rnd, sig) ==
    IF S.container /\ S.hasPosition /\ S.emit
    THEN SpawnOpportunities([AgeLoop(S, S.first, delta, sig) EXCEPT
                                !.spawnTimer = @ - Max(delta, 0), !.tick = delta],
                            0, rnd, sig)
    ELSE {}

\* the emitter lifetime ends at the spawn opportunity met in state T
LifetimeEnds(T) == T.emitterLife >= 0 /\ T.emitterLife - T.frequency <= 0

\* C14: at a spawn opportunity of update() that finds the emitter full, no
\* particle is made, the spawn timer advances by frequency, and the loop
\* goes on to the next opportunity while the timer is not above 0; at an
\* opportunity that finds room, after a recycle, a wave is spawned.
FullDefers ==
    \A delta \in Deltas(em), rnd \in Randoms(em), sig \in Signalled(em) :
        LET O == UpdateOpportunities(em, delta, rnd, sig)
        IN \A o \in O :
              LET T == o.S
                  R == SpawnStep(T, o.n, rnd, sig)
              IN /\ T.particleCount >= T.maxParticles /\ ~LifetimeEnds(T) =>
                       /\ R.S.parts = T.parts
                       /\ R.S.particleCount = T.particleCount
                       /\ R.S.spawnTimer = T.spawnTimer + T.frequency
                       /\ R.S.emit /\ ~R.stop
                       /\ R.S.spawnTimer <= 0 => [S |-> R.S, n |-> R.n] \in O
                 /\ /\ T.particleCount < T.maxParticles /\ ~LifetimeEnds(T)
                    /\ sig = {}
                    /\ \A i \in DOMAIN rnd :
                          /\ ~SkipsSpawn(T, rnd[i])
                          /\ -T.spawnTimer < ChooseLifetime(T, rnd[i])
                    => /\ R.S.particleCount = T.particleCount + WaveLength(T)
                       /\ R.S.particleCount > T.particleCount
                       /\ R.S.spawnTimer = T.spawnTimer + T.frequency

\* the emitter is full of particles that outlive an update(2), which meets
\* two spawn opportunities
FullForTwoOpportunities ==
    /\ em.container /\ em.hasPosition /\ em.emit /\ em.emitterLifetime = Unlimited
    /\ em.particleCount = em.maxParticles
    /\ em.frequency = 1 /\ em.spawnTimer = 1
    /\ \A p \in Range(Active(em)) : em.parts[p].maxLife - em.parts[p].age >= 2

\* C15: init(config) with entries of unregistered types does not throw, and
\* builds the pipelines that it builds from the registered entries alone.
UnknownDropped ==
    LET known == SelectSeq(entries, IsKnown)
    IN /\ em.initBehaviors \in InitPipelines(known)
       /\ em.updateBehaviors = BuildUpdateBehaviors(em.initBehaviors)
       /\ em.recycleBehaviors = BuildRecycleBehaviors(em.initBehaviors)

OrderOf(b) == knownBehaviors[b].order

\* C16: in the init pipeline the behaviors of order Spawn, and no others,
\* come before the position step, and the order values do not decrease; the
\* update and recycle pipelines are its sub-sequences of the behaviors that
\* define updateParticle and recycleParticle.
PipelineOrdered ==
    ~MapThrows(entries) =>
    LET bs == em.initBehaviors
        I == { i \in 1..Len(bs) : bs[i] # PositionParticle }
    IN /\ \E k \in 1..Len(bs) :
             /\ bs[k] = PositionParticle
             /\ \A i \in I : OrderOf(bs[i]) = OrderSpawn <=> i < k
       /\ \A i, j \in I : i < j => OrderOf(bs[i]) <= OrderOf(bs[j])
       /\ em.updateBehaviors = SelectSeq(bs, HasUpdate)
       /\ em.recycleBehaviors = SelectSeq(bs, HasRecycle)

\* the updateParticle calls made on particle p, in the order of the calls
RanOn(S, p) ==
    LET OnP(e) == e.p = p
    IN SelectSeq(S.ran, OnP)

\* the recycleParticle calls made on particle p with natural = TRUE
NaturalHooksOn(S, p) ==
    LET OnP(e) == e.p = p /\ e.natural
    IN SelectSeq(S.hooks, OnP)

\* the update pipeline up to the first behavior that returns a truthy value
\* for particle p, all of it if none does
PassOn(S, p, sig) ==
    LET U == S.updateBehaviors
        T == { i \in 1..Len(U) : Truthy(U[i], p, sig) }
    IN IF T = {} THEN U
       ELSE SubSeq(U, 1, CHOOSE i \in T : \A j \in T : i <= j)

\* the first loop of update(delta) recycles active particle p for its age
Expires(S, p, delta) ==
    /\ p \in Range(Active(S))
    /\ AgedBy(S, p, delta) > S.parts[p].maxLife \/ AgedBy(S, p, delta) < 0

\* C17: in every update() the updateParticle calls on a particle are passes
\* over the update pipeline in its order, each pass ending with the first
\* behavior that returns a truthy value; each such return recycles the
\* particle once, and every other particle is still given its pass.
UpdatePasses ==
    em.container /\ em.updateBehaviors # <<>> =>
    \A delta \in Deltas(em), rnd \in Randoms(em), sig \in Signalled(em) :
        LET B == UpdateParticles(em, delta, rnd, sig)
        IN \A p \in 1..Len(B.parts) :
              LET R == RanOn(B, p)
                  G == PassOn(em, p, sig)
                  passes == Len(R) \div Len(G)
                  recycles == (IF Signals(em, p, sig) THEN passes ELSE 0)
                              + (IF Expires(em, p, delta) THEN 1 ELSE 0)
              IN /\ Len(R) % Len(G) = 0
                 /\ \A i \in 1..Len(R) : R[i].b = G[((i - 1) % Len(G)) + 1]
                 /\ Len(NaturalHooksOn(B, p)) = recycles * Len(em.recycleBehaviors)
                 /\ p \in Range(Active(em)) /\ ~Expires(em, p, delta) => passes >= 1
                 /\ p \in Range(Active(B)) => passes >= 1 /\ ~Signals(em, p, sig)

\* an update() in which a behavior has one particle recycled in the first
\* loop and again, respawned, in the catch-up pass, the later behaviors of
\* the pipeline skipped both times, while the other particle gets all of them
SignalledInBothPasses ==
    /\ em.particleCount = 2
    /\ Len(em.updateBehaviors) = 3
    /\ \E delta \in Deltas(em), rnd \in Randoms(em), sig \in Signalled(em) :
          LET B == UpdateParticles(em, delta, rnd, sig)
              p == em.first
              q == em.parts[p].next
          IN /\ p \in sig
             /\ ~Expires(em, p, delta)
             /\ Len(PassOn(em, p, sig)) = 2
             /\ Len(RanOn(B, p)) = 4
             /\ Len(RanOn(B, q)) = 3
             /\ B.particleCount = 1

\* the recycleParticle calls of recycling the particles ps one after the
\* other: for each particle the recycle pipeline of S in its order, the
\* particle still in its container
HooksFor(S, ps, natural) ==
    LET n == Len(S.recycleBehaviors)
    IN [ k \in 1..(Len(ps) * n) |->
           [ p |-> ps[((k - 1) \div n) + 1],
             b |-> S.recycleBehaviors[((k - 1) % n) + 1],
             natural |-> natural,
             linked |-> TRUE ] ]

\* the particles that recycleParticle was called for, one per recycle
RecycledIn(S, B) ==
    LET n == Len(S.recycleBehaviors)
    IN IF n = 0 THEN <<>>
       ELSE [ k \in 1..(Len(B.hooks) \div n) |-> B.hooks[(k - 1) * n + 1].p ]

JustInitialised(S) ==
    /\ ~Destroyed(S) /\ S.hasPosition /\ S.emit
    /\ S.first = Null /\ S.spawnTimer = 0
    /\ S.emitterLife = Unlimited

\* C19: with particlesPerWave 1, maxParticles 1 and one moveSpeedStatic
\* behavior of speed v, the first update(dt), dt shorter than the lifetime,
\* leaves one active particle, of age dt, v * dt away from the spawn
\* position; in time units of half a second, update(0.5) with speed 100 and
\* lifetime 1 leaves it at 50 with age 0.5.
FirstTickMoves ==
    /\ em.updateBehaviors = <<"moveSpeedStatic">>
    /\ em.maxParticles = 1 /\ em.particlesPerWave = 1
    /\ em.spawnChance = 100 /\ em.minLifetime = em.maxLifetime
    /\ JustInitialised(em)
    => \A dt \in 0..(em.minLifetime - 1), rnd \in Randoms(em) :
          LET U == Update(em, dt, rnd, {})
              p == U.first
          IN /\ U.particleCount = 1
             /\ Active(U) = <<p>>
             /\ U.parts[p].x = em.spawnPos + em.speed * dt
             /\ U.parts[p].age = dt
             /\ U.parts[p].maxLife = em.minLifetime

\* after the first update, of one time unit: the particle of lifetime 2 and
\* speed MaxSpeed, spawned with frequency 2, has age 1 and is at MaxSpeed
FirstTickDone ==
    /\ em.particleCount = 1
    /\ em.speed = MaxSpeed /\ em.frequency = 2 /\ em.minLifetime = 2
    /\ em.spawnTimer = 1
    /\ em.parts[em.first].age = 1
    /\ em.parts[em.first].x = MaxSpeed
    /\ em.parts[em.first].maxLife = 2

\* the value list [(0, a), (1, b)], interpolated linearly
TwoKeyframes(data) ==
    /\ ~data.isStepped
    /\ Len(data.list) = 2
    /\ data.list[1].time = 0 /\ data.list[2].time = FullTime

\* C20: a list reset with the two keyframes (0, a) and (1, b), not stepped,
\* interpolates to a at 0, to b at 1 and to (a + b) / 2 at 0.5.
LinearInterpolation ==
    TwoKeyframes(call.data) /\ call.lerp \in {0, HalfTime, FullTime} =>
    LET a == call.data.list[1].value
        b == call.data.list[2].value
        r == call.result
    IN /\ ~r.throws
       /\ r.den > 0
       /\ call.lerp = 0 => r.num = a * r.den
       /\ call.lerp = FullTime => r.num = b * r.den
       /\ call.lerp = HalfTime => 2 * r.num = (a + b) * r.den

\* the value of the last keyframe of array whose time is at most t
LastKeyframe(array, t) ==
    LET I == { i \in 1..Len(array) : array[i].time <= t }
        k == CHOOSE i \in I : \A j \in I : j <= i
    IN array[k].value

\* C21: a list reset with a stepped value list interpolates, at every t in
\* 0..1, to the value of the last keyframe whose time is at most t.
SteppedInterpolation ==
    call.data.isStepped /\ call.data.list[1].time = 0 /\ call.lerp \in Lerps =>
    /\ ~call.result.throws
    /\ call.result.den > 0
    /\ call.result.num = LastKeyframe(call.data.list, call.lerp) * call.result.den

\* C22: a list reset with a single node interpolates to the value of that
\* node at every t in 0..1, without an error, stepped or not.
OneNodeConstant ==
    Len(list.first) = 1 /\ call.lerp \in Lerps =>
    /\ ~call.result.throws
    /\ call.result.den > 0
    /\ call.result.num = list.first[1].value * call.result.den

\* what update() does with the position of the emitter, in a state from
\* which every update is tried, and what the step taken does to the flags
TrackingStep ==
    /\ TrackInitStep \/ ResetPositionTrackingStep => ~em'.prevPosIsValid
    /\ ~em.prevPosIsValid /\ em'.prevPosIsValid => em.posChanged /\ ~em'.posChanged
    /\ ~Destroyed(em) /\ em.hasPosition =>
       \A delta \in Deltas(em), rnd \in Randoms(em), sig \in Signalled(em) :
          LET B == UpdateParticles(em, delta, rnd, sig)
          IN /\ \A k \in 1..Len(B.waves) :
                   LET w == B.waves[k]
                   IN /\ w.pos.interpolated <=> em.prevPosIsValid /\ em.posChanged
                      /\ ~w.pos.interpolated =>
                            w.pos.finite /\ w.pos.x = Anchor(em)
                      /\ w.cur = Anchor(em) /\ w.prev = em.prevPos
             /\ \A p \in Range(Active(B)) \ Range(Active(em)) :
                   ~(em.prevPosIsValid /\ em.posChanged) =>
                       ~B.parts[p].xNaN /\ B.parts[p].x = Anchor(em)
             /\ IF em.posChanged
                THEN B.prevPos = Anchor(em) /\ B.prevPosIsValid /\ ~B.posChanged
                ELSE /\ B.prevPos = em.prevPos /\ ~B.posChanged
                     /\ B.prevPosIsValid = em.prevPosIsValid

\* C23: init() and resetPositionTracking() leave the previous position
\* invalid, and only an update() after a change of position makes it valid;
\* update() takes the current anchor for every wave unless the previous
\* position is valid and the position has changed, and when the position has
\* changed it ends with the current anchor stored as the previous one and
\* the flag cleared.
PositionTracking == [][TrackingStep]_vars

\* a particle emitted half-way between the previous anchor and the current
\* one, after which the current anchor has been stored
EmittedHalfWay ==
    /\ em.prevPosIsValid /\ ~em.posChanged
    /\ em.prevPos = PosStep
    /\ \E p \in Range(Active(em)) : em.parts[p].x = PosStep \div 2

\* the emission position w of a wave lies between the anchors, at a factor
\* lerp = 1 + timer / delta in 0..1, delta positive
OnSegment(w) ==
    /\ w.delta > 0
    /\ 0 <= w.delta + w.timer /\ w.delta + w.timer <= w.delta
    /\ w.pos.finite
    /\ Min(w.prev, w.cur) <= w.pos.x /\ w.pos.x <= Max(w.prev, w.cur)

\* C30: whenever update(dt) interpolates an emission position, dt > 0 and
\* 1 + spawnTimer / dt is in 0..1, so that the position is a number between
\* the previous anchor and the current one.
InterpolationOnSegment ==
    ~Destroyed(em) /\ em.hasPosition =>
    \A delta \in Deltas(em), rnd \in Randoms(em), sig \in Signalled(em) :
        LET B == UpdateParticles(em, delta, rnd, sig)
        IN \A k \in 1..Len(B.waves) :
              B.waves[k].pos.interpolated => OnSegment(B.waves[k])

\* C24: every active particle is a child of the current container and no
\* pooled particle has a parent; assigning a container leaves particleCount
\* at 0 and no particle of the emitter attached to a container.
ContainerOwnership ==
    /\ \A p \in Range(Active(em)) :
          /\ em.container
          /\ em.parts[p].parent /\ em.parts[p].parentId = em.containerId
    /\ \A p \in Range(Pooled(em)) :
          ~em.parts[p].parent /\ em.parts[p].parentId = Null
    /\ \A c \in Containers :
          LET B == SetContainerTo(em, c)
          IN /\ B.particleCount = 0 /\ Active(B) = <<>>
             /\ B.container /\ B.containerId = c
             /\ \A p \in 1..Len(B.parts) : ~B.parts[p].parent

\* the emitter has been given another container: the particles of the first
\* one are in the pool, and a particle is active in the new one
MovedToSecondContainer ==
    /\ em.containerId # FirstContainer /\ em.container
    /\ em.particleCount = 1
    /\ Len(Pooled(em)) >= 1

\* C25: reset() selects intValueSimple exactly for a list of two nodes, the
\* first at time 0 and the second at time 1; every other list is evaluated
\* by intValueStepped or intValueComplex.
SimpleExactly ==
    list.interpolate # "null" =>
    /\ list.interpolate \in {"intValueSimple", "intValueStepped", "intValueComplex"}
    /\ list.interpolate = "intValueSimple" <=>
          /\ Len(list.first) = 2
          /\ list.first[1].time = 0 /\ list.first[2].time = FullTime

\* C26: a list reset with three or more keyframes, not stepped, interpolates
\* without an error at every t in 0..1: to the value of the keyframe at a
\* keyframe time, and between two keyframes to their linear blend.
SegmentInterpolation ==
    ~call.data.isStepped /\ Len(call.data.list) >= 3 /\ call.lerp \in Lerps =>
    LET array == call.data.list
        t == call.lerp
        r == call.result
    IN /\ ~r.throws
       /\ r.den > 0
       /\ \A i \in 1..Len(array) :
             array[i].time = t => r.num = array[i].value * r.den
       /\ \A i \in 1..(Len(array) - 1) :
             array[i].time < t /\ t < array[i + 1].time =>
                r.num * (array[i + 1].time - array[i].time) =
                   r.den * ( array[i].value * (array[i + 1].time - t)
                             + array[i + 1].value * (t - array[i].time) )

\* the particles that have a parent
Attached(S) == { p \in 1..Len(S.parts) : S.parts[p].parent }

\* the candidates of the wave of the spawn opportunity met in state T, n
\* draws made before it, that are made into particles
Made(T, n, rnd) ==
    { i \in 0..(WaveLength(T) - 1) :
        LET draw == rnd[(n + i) % MaxDraws]
        IN ~SkipsSpawn(T, draw) /\ -T.spawnTimer < ChooseLifetime(T, draw) }

\* the spawn opportunity met in state T makes a wave
HasRoom(T) == T.particleCount < T.maxParticles /\ ~LifetimeEnds(T)

\* C27: at a spawn opportunity of update() a particle is made only for a
\* candidate whose backdated age -spawnTimer is below its lifetime; for the
\* others nothing is taken from the pool, allocated, attached or counted;
\* a particle that enters the active list has an age below its maxLife.
TooOldNotSpawned ==
    \A delta \in Deltas(em), rnd \in Randoms(em), sig \in Signalled(em) :
        \A o \in UpdateOpportunities(em, delta, rnd, sig) :
            LET T == o.S
                W == WaveLoop([S |-> T, wf |-> Null, wl |-> Null], 0,
                              WaveLength(T), o.n, rnd)
                made == Cardinality(Made(T, o.n, rnd))
                wave == Chain(W.S.parts, W.wf, Len(W.S.parts) + 1)
                R == SpawnStep(T, o.n, rnd, sig).S
            IN HasRoom(T) =>
               /\ Len(wave) = made
               /\ W.S.particleCount = T.particleCount + made
               /\ Cardinality(Attached(W.S)) = Cardinality(Attached(T)) + made
               /\ (Len(Pooled(T)) - Len(Pooled(W.S)))
                     + (Len(W.S.parts) - Len(T.parts)) = made
               /\ made = 0 => W.S = T /\ R.parts = T.parts
               /\ \A k \in 1..Len(wave) :
                     /\ -T.spawnTimer < W.S.parts[wave[k]].maxLife
                     /\ wave[k] \in Range(Active(R)) =>
                           /\ R.parts[wave[k]].age = -T.spawnTimer
                           /\ R.parts[wave[k]].age < R.parts[wave[k]].maxLife

\* an update() meets a spawn opportunity with room at which the candidate is
\* too old to be made, and makes a particle at a later one
CandidateTooOld ==
    \E delta \in Deltas(em), rnd \in Randoms(em) :
        /\ \E o \in UpdateOpportunities(em, delta, rnd, {}) :
              /\ HasRoom(o.S) /\ WaveLength(o.S) > 0
              /\ Made(o.S, o.n, rnd) = {}
              /\ ~SkipsSpawn(o.S, rnd[o.n % MaxDraws])
        /\ UpdateParticles(em, delta, rnd, {}).particleCount > em.particleCount

\* sequence s is the beginning of sequence t
IsPrefix(s, t) == Len(s) <= Len(t) /\ SubSeq(t, 1, Len(s)) = s

\* C28: in one update(dt), dt >= 0, the loop over the particles that were
\* active ages and updates all of them, recycling the expired ones, before
\* the first spawn opportunity; a particle spawned in the tick and left
\* active ends it with age = -spawnTimer of its opportunity, between 0 and
\* dt, each update behavior applied to it once with that delta.
AgedBeforeSpawn ==
    em.container /\ em.hasPosition =>
    \A delta \in Deltas(em) \cap Nat, rnd \in Randoms(em), sig \in Signalled(em) :
        LET A == AgeLoop(em, em.first, delta, sig)
            B == UpdateParticles(em, delta, rnd, sig)
            U == em.updateBehaviors
        IN /\ \A p \in Range(Active(em)) :
                 IF Expires(em, p, delta)
                 THEN p \in Range(Pooled(A)) /\ RanOn(A, p) = <<>>
                 ELSE /\ Len(RanOn(A, p)) = Len(PassOn(em, p, sig))
                      /\ \A i \in 1..Len(RanOn(A, p)) : RanOn(A, p)[i].d = delta
                      /\ Signals(em, p, sig) => p \in Range(Pooled(A))
                      /\ ~Signals(em, p, sig) =>
                            /\ p \in Range(Active(A))
                            /\ A.parts[p].age = em.parts[p].age + delta
           /\ Range(Active(A)) \subseteq Range(Active(em))
           /\ A.waves = <<>>
           /\ IsPrefix(A.ran, B.ran) /\ IsPrefix(A.hooks, B.hooks)
           /\ \A o \in UpdateOpportunities(em, delta, rnd, sig) :
                 LET T == o.S
                     W == WaveLoop([S |-> T, wf |-> Null, wl |-> Null], 0,
                                   WaveLength(T), o.n, rnd)
                     wave == Chain(W.S.parts, W.wf, Len(W.S.parts) + 1)
                     R == SpawnStep(T, o.n, rnd, sig).S
                 IN /\ IsPrefix(A.ran, T.ran)
                    /\ T.particleCount <= A.particleCount + Len(T.waves) * T.particlesPerWave
                    /\ Len(T.waves) = 0 => /\ T.particleCount = A.particleCount
                                           /\ T.poolFirst = A.poolFirst
                    /\ HasRoom(T) =>
                       \A k \in 1..Len(wave) :
                          LET p == wave[k]
                              new == RanOn([ran |-> SubSeq(R.ran, Len(T.ran) + 1,
                                                          Len(R.ran))], p)
                          IN p \in Range(Active(R)) =>
                                /\ p \in Range(Active(B))
                                /\ B.parts[p].age = -T.spawnTimer
                                /\ 0 <= -T.spawnTimer /\ -T.spawnTimer <= delta
                                /\ Len(new) = Len(U)
                                /\ \A i \in 1..Len(new) :
                                      new[i].b = U[i] /\ new[i].d = -T.spawnTimer
                                /\ IsPrefix(RanOn(R, p), RanOn(B, p))
                                /\ Len(RanOn(B, p)) = Len(RanOn(R, p))

\* a full emitter whose first particle expires in an update() that spawns
\* a particle in its place, younger than the time step
ReplacedInOneTick ==
    /\ em.particleCount = em.maxParticles
    /\ Len(em.updateBehaviors) > 0
    /\ \E delta \in Deltas(em) \cap Nat, rnd \in Randoms(em) :
          LET B == UpdateParticles(em, delta, rnd, {})
          IN /\ Expires(em, em.first, delta)
             /\ B.particleCount = em.maxParticles
             /\ \E p \in Range(Active(B)) :
                   /\ B.parts[p].age < delta
                   /\ Len(RanOn(B, p)) >= Len(em.updateBehaviors)
                   /\ RanOn(B, p)[Len(RanOn(B, p))].d = B.parts[p].age

\* the fields of a particle that Particle.init and the take from the pool set
BaseState(q) ==
    [age |-> q.age, maxLife |-> q.maxLife, x |-> q.x, xNaN |-> q.xNaN,
     next |-> q.next, prev |-> q.prev]

\* the emitter with every pooled particle as new Particle(this) leaves one
FreshPool(S) ==
    [S EXCEPT !.parts =
        [i \in 1..Len(S.parts) |->
            IF i \in Range(Pooled(S))
            THEN [NewParticle EXCEPT !.next = S.parts[i].next]
            ELSE S.parts[i]]]

\* the values of the active particles, in the order of the active list
ActiveValues(S) ==
    [i \in 1..Len(Active(S)) |->
        LET q == S.parts[Active(S)[i]]
        IN [age |-> q.age, maxLife |-> q.maxLife, x |-> q.x, xNaN |-> q.xNaN]]

\* C29: a particle taken from the pool starts as a new one does: age 0,
\* maxLife the new lifetime, position 0, prev and next null; an update()
\* that reuses pooled particles leaves the active particles with the values
\* it leaves them with when the pooled particles are new.
PooledLikeNew ==
    /\ em.poolFirst # Null =>
          \A lifetime \in 1..MaxLifetime :
              LET T == TakeParticle(em, lifetime)
              IN /\ T.p = em.poolFirst
                 /\ BaseState(T.S.parts[T.p])
                       = BaseState(ParticleInit(NewParticle, lifetime))
    /\ \A delta \in Deltas(em), rnd \in Randoms(em), sig \in Signalled(em) :
          ActiveValues(UpdateParticles(em, delta, rnd, sig))
             = ActiveValues(UpdateParticles(FreshPool(em), delta, rnd, sig))

\* a pooled particle that has aged and moved is taken again by an update()
StalePooledReused ==
    /\ em.poolFirst # Null
    /\ em.parts[em.poolFirst].age > 0 /\ em.parts[em.poolFirst].x > 0
    /\ \E delta \in Deltas(em), rnd \in Randoms(em) :
          LET B == UpdateParticles(em, delta, rnd, {})
          IN /\ em.poolFirst \in Range(Active(B))
             /\ B.parts[em.poolFirst].age < em.parts[em.poolFirst].age

\* update(delta) in state S leaves the spawn timer within one period, or at
\* 0 with emission stopped by the end of the emitter lifetime
TimerInPeriod(S, delta, rnd, sig) ==
    LET B == Update(S, delta, rnd, sig)
    IN /\ B.emit => 0 < B.spawnTimer /\ B.spawnTimer <= B.frequency
       /\ S.emit /\ ~B.emit /\ ~Destroyed(B) => B.spawnTimer = 0

\* the spawn timer is within one period after every update() that leaves
\* the emitter emitting
TimerInPeriodAlways ==
    \A delta \in Deltas(em), rnd \in Randoms(em), sig \in Signalled(em) :
        TimerInPeriod(em, delta, rnd, sig)

\* C35: after an update() of an emitter with a container, whose spawn timer
\* was not above the frequency before the call, emit still true implies
\* 0 < spawnTimer <= frequency; when the update stops emission at the end of
\* the emitter lifetime the spawn timer is 0.
TimerInPeriodFromPeriod ==
    em.container /\ em.hasPosition /\ em.spawnTimer <= em.frequency =>
    \A delta \in Deltas(em), rnd \in Randoms(em), sig \in Signalled(em) :
        TimerInPeriod(em, delta, rnd, sig)

\* an update() of a full emitter that passes two spawn opportunities and
\* leaves the spawn timer a whole period ahead
TimerAdvanced ==
    /\ em.container /\ em.hasPosition /\ em.emit
    /\ em.spawnTimer <= em.frequency
    /\ em.particleCount = em.maxParticles
    /\ \E delta \in Deltas(em), rnd \in Randoms(em) :
          LET B == Update(em, delta, rnd, {})
          IN /\ B.emit /\ B.spawnTimer = B.frequency
             /\ B.spawnTimer - (em.spawnTimer - delta) >= 2 * em.frequency

\* C36: after update(dt), dt positive, zero or negative, every active
\* particle has 0 <= age <= maxLife, and one spawned by the update has
\* age < maxLife.
AgeWithinLife ==
    \A delta \in Deltas(em), rnd \in Randoms(em), sig \in Signalled(em) :
        LET B == Update(em, delta, rnd, sig)
            A == AgeLoop(em, em.first, delta, sig)
        IN \A p \in Range(Active(B)) :
              /\ 0 <= B.parts[p].age
              /\ B.parts[p].age <= B.parts[p].maxLife
              /\ p \notin Range(Active(A)) => B.parts[p].age < B.parts[p].maxLife

\* one particle is recycled by an update() with a negative dt, and another
\* by one with a positive dt that takes it past its lifetime while a third
\* particle stays
AgedOut ==
    /\ \E p \in Range(Active(em)) :
          /\ em.parts[p].age = 0
          /\ p \notin Range(Active(Update(em, -1, [i \in 0..(MaxDraws - 1) |->
                                     [chance |-> 0, life |-> 0]], {})))
    /\ \E p, q \in Range(Active(em)), delta \in 1..MaxDt :
          /\ em.parts[p].age + delta > em.parts[p].maxLife
          /\ em.parts[q].age + delta <= em.parts[q].maxLife
          /\ ~em.emit
          /\ Range(Active(Update(em, delta, [i \in 0..(MaxDraws - 1) |->
                                     [chance |-> 0, life |-> 0]], {}))) = {q}

\* C37: after playOnce(cb) on an emitter with a finite emitter lifetime,
\* updated again and again with dt > 0, emission stops, the particles die
\* and cb is invoked; after playOnceAndDestroy(cb) the emitter ends up
\* destroyed and off the ticker.
PlayedOnceCompletes ==
    /\ (cb.kind = "once") ~> (~em.emit /\ em.particleCount = 0 /\ cb.calls > 0)
    /\ (cb.kind = "destroy") ~> (Destroyed(em) /\ ~em.autoUpdate /\ cb.calls > 0)

\* an emitter played once has spawned, stopped, lost its particles and
\* invoked the callback once
PlayedOut ==
    /\ cb.kind = "once" /\ cb.calls = 1
    /\ ~em.emit /\ em.particleCount = 0
    /\ em.poolFirst # Null /\ ~Destroyed(em)

---------------------------------------------------------------------------
(* PolygonalChain.getRandPos                                               *)

\* whether the point (x / den, y / den) lies on segment seg at distance
\* dist / RandDen from its start p1
OnSegmentAt(seg, x, y, den, dist) ==
    LET dx == x - seg.p1.x * den
        dy == y - seg.p1.y * den
        ex == seg.p2.x - seg.p1.x
        ey == seg.p2.y - seg.p1.y
    IN /\ dx * ey = dy * ex
       /\ dx * ex >= 0 /\ dy * ey >= 0
       /\ dx * dx <= ex * ex * den * den /\ dy * dy <= ey * ey * den * den
       /\ (dx * dx + dy * dy) * RandDen * RandDen = dist * dist * den * den

\* C31: for every data and every random draw, getRandPos of the chain made
\* from the data chooses a segment and does not throw; the drawn distance
\* d = Math.random() * totalLength lies in the chosen segment's part
\* countingLengths[i-1] <= d < countingLengths[i] of the total length, and
\* the point written to out lies on the chosen segment at distance
\* d - countingLengths[i-1] from its start.
RandPosOnChosenSegment ==
    shape.constructed =>
        \A random \in 0..(RandDen - 1) :
            LET R == GetRandPos(shape, random)
                d == random * shape.totalLength
                before == IF R.seg <= 1 THEN 0
                          ELSE shape.countingLengths[R.seg - 1] * RandDen
            IN /\ ~R.threw
               /\ R.seg \in 1..Len(shape.segments)
               /\ shape.totalLength > 0 =>
                     /\ before <= d
                     /\ d < shape.countingLengths[R.seg] * RandDen
               /\ OnSegmentAt(shape.segments[R.seg], R.x, R.y, R.den, d - before)

---------------------------------------------------------------------------
(* LinkedListContainer                                                     *)

\* the children met from child c on by following nextChild, at most n of them
RECURSIVE ChainFrom(_, _, _)
ChainFrom(L, c, n) ==
    IF c = Null \/ n = 0 THEN <<>>
    ELSE <<c>> \o ChainFrom(L, L.nodes[c].nextChild, n - 1)

\* the traversal from firstChild; longer than MaxChildren when it revisits
Order(L) == ChainFrom(L, L.firstChild, MaxChildren + 1)

\* the child list is a well-formed doubly linked list
WellFormed(L) ==
    LET order == Order(L)
    IN /\ Len(order) <= MaxChildren
       /\ \A i, j \in 1..Len(order) : order[i] = order[j] => i = j
       /\ { order[i] : i \in 1..Len(order) } =
             { c \in Children : L.nodes[c].parent = "this" }
       /\ L.lastChild = (IF order = <<>> THEN Null ELSE order[Len(order)])
       /\ L.firstChild # Null => L.nodes[L.firstChild].prevChild = Null
       /\ L.lastChild # Null => L.nodes[L.lastChild].nextChild = Null
       /\ \A i \in 1..(Len(order) - 1) : L.nodes[order[i + 1]].prevChild = order[i]

\* a well-formed list with the right childCount
Sound(L) == WellFormed(L) /\ L.childCount = Len(Order(L))

\* the list s without c
Without(s, c) == SelectSeq(s, LAMBDA e : e # c)

\* the list s with c put in before place i
PutAt(s, c, i) == SubSeq(s, 1, i - 1) \o <<c>> \o SubSeq(s, i, Len(s))

\* the place of c in the list s
PlaceOf(s, c) == CHOOSE i \in 1..Len(s) : s[i] = c

\* C32: in a well-formed list, addChildBelow(child, relative) and
\* addChildAbove(child, relative) with a relative that is a child of the
\* container (the first and the last child too) do not throw and leave a
\* well-formed list in which child is just before, or just after, relative,
\* the other children are in their order and childCount is their number;
\* with a relative that is not a child of the container they throw.
AddedBesideRelative ==
    Sound(ll) =>
        \A c, relative \in Children :
            c # relative =>
                LET below == AddChildBelow(ll, c, relative)
                    above == AddChildAbove(ll, c, relative)
                    others == Without(Order(ll), c)
                IN IF ll.nodes[relative].parent = "this"
                   THEN /\ ~below.threw /\ Sound(below)
                        /\ Order(below) = PutAt(others, c, PlaceOf(others, relative))
                        /\ ~above.threw /\ Sound(above)
                        /\ Order(above) = PutAt(others, c, PlaceOf(others, relative) + 1)
                   ELSE below.threw /\ above.threw

\* the child list and the count of L are those of M
SameList(L, M) ==
    /\ L.nodes = M.nodes
    /\ L.firstChild = M.firstChild
    /\ L.lastChild = M.lastChild
    /\ L.childCount = M.childCount

\* C33: in a well-formed list, setChildIndex(child, index) with a child of
\* the container and 0 <= index < childCount (the last index too) does not
\* throw and leaves a well-formed list with getChildIndex(child) = index,
\* the same childCount and the other children in their order; with another
\* index or a child that is not the container's it throws and the list is
\* as before.
ChildMovedToIndex ==
    Sound(ll) =>
        \A c \in Children, index \in -1..MaxChildCount :
            LET moved == SetChildIndex(ll, c, index)
            IN IF ll.nodes[c].parent = "this" /\ 0 <= index /\ index < ll.childCount
               THEN /\ ~moved.threw
                    /\ Sound(moved)
                    /\ GetChildIndex(moved, c) = index
                    /\ moved.childCount = ll.childCount
                    /\ Without(Order(moved), c) = Without(Order(ll), c)
               ELSE moved.threw /\ SameList(moved, ll)

\* the children that the traversal from firstChild meets
Reachable(L) == { Order(L)[i] : i \in 1..Len(Order(L)) }

\* C38: after any sequence of calls of addChild, addChildAt, addChildBelow,
\* addChildAbove, removeChild, removeChildAt, removeChildren, setChildIndex
\* and swapChildren of which none has thrown, childCount is the number of
\* children reachable from firstChild by nextChild.
CountIsReachable == ~ll.failed => ll.childCount = Cardinality(Reachable(ll))

\* C39: after any sequence of calls of which none has thrown, the child
\* list is a well-formed doubly linked list: the traversal from firstChild
\* by nextChild revisits no child, ends at lastChild and meets exactly the
\* objects whose parent is the container, firstChild.prevChild and
\* lastChild.nextChild are null, and c.nextChild.prevChild = c for every
\* child c but the last.
ListWellFormed == ~ll.failed => WellFormed(ll)

====
